---- MODULE Spec2Model ----
(***************************************************************************)
(* A model of the SPIR-V <-> LLVM translator (lib/SPIRV): the encoder      *)
(* LLVMToSPIRV (SPIRVWriter.cpp), the decoder SPIRVToLLVM                  *)
(* (SPIRVReader.cpp) and the legalizer SPIRVRegularizeLLVM                 *)
(* (SPIRVRegularizeLLVM.cpp).                                              *)
(*                                                                         *)
(* The module holds one group of variables per mechanism and one           *)
(* specification per mechanism:                                            *)
(*   SpecLoop   loop-control hints: getLoopControl / setLLVMLoopMetadata   *)
(*   SpecValue  the value table and the forward/placeholder protocol       *)
(*   SpecType   the type table and recursive struct translation            *)
(*   SpecFP     floating-point contraction status over the call graph      *)
(*   SpecLegal  addKernelEntryPoint and the encoding of entry points       *)
(*   SpecIO     the entry points writeSpirv / readSpirv                    *)
(* Every specification leaves the variables of the other mechanisms at     *)
(* their idle values.                                                      *)
(***************************************************************************)
EXTENDS Integers, Sequences, FiniteSets, TLC

VARIABLES
  \* ---- loop-control hints
  loopMD,      \* operands of the !llvm.loop node of the latch branch
  lcPc,        \* "src" | "encoded" | "decoded"
  lcMask,      \* OpLoopMerge loop control mask, as the set of its set bits
  lcParams,    \* OpLoopMerge loop control parameters (SPIRVWord sequence)
  decMD,       \* operands of the !llvm.loop node the decoder builds
  \* ---- value table
  vDir,        \* "dec" (SPIRVToLLVM) | "enc" (LLVMToSPIRV) | "idle"
  vSrc,        \* the source function: per instruction, its operand
  vMap,        \* ValueMap: source instruction -> target object (0: none)
  vPh,         \* PlaceholderMap of the decoder, as its key set
  vObjs,       \* the target objects created so far
  vPc,         \* the instruction the basic-block loop translates next
  vCrash,      \* the translation has stopped on a fault
  vLog,        \* the requests of the last step that found a real value
  \* ---- type table
  tDir,        \* "dec" | "enc" | "idle"
  tGraph,      \* the source type graph
  tRoot,       \* the type whose translation is requested
  tMap,        \* TypeMap: source type -> target type (0: none)
  tObjs,       \* the target types created so far
  tCalls,      \* number of calls of transType
  tPc,         \* "start" | "done" | "diverged" | "idle"
  tEvents,     \* the steps of the translation of structs, in order
  \* ---- floating-point contraction
  fCalls,      \* the call instructions of each function with a body
  fDefs,       \* Defs: the functions with a body in module order
  fMap,        \* FPContractMap
  fCur,        \* index in fDefs of the function being translated
  fInst,       \* index of its next call instruction
  fQueue,      \* the queue Users of fpContractUpdateRecursive
  fFPC,        \* the argument FPC of fpContractUpdateRecursive
  fPc,         \* "body" | "propagate" | "done" | "idle"
  fSteps,      \* the iterations of the loop of the running fpContractUpdateRecursive
  fChanges,    \* per function, how often its status has changed
  fEnq,        \* per function, how often the loop has enqueued its users
  \* ---- legalizer and entry points
  lIn,         \* the module as it was given: functions and execution modes
  lFns,        \* the functions of the module
  lModes,      \* the operands of the named metadata spirv.ExecutionMode
  lExt,        \* SPV_INTEL_kernel_attributes is allowed
  lPc,         \* "input" | "legalized" | "functions" | "encoded" | "failed"
  lBFs,        \* the SPIR-V functions of the encoded module
  lEmitted,    \* the execution modes added to SPIR-V functions
  lDec,        \* the functions of the LLVM module the decoder builds
  \* ---- entry points
  ioDir,       \* "enc" (writeSpirv) | "dec" (readSpirv) | "idle"
  ioIn,        \* the input of the call
  ioPc,        \* "start" | "addressing" | "translate" | "returned" | "idle"
  ioNext,      \* index of the next construct to translate
  ioErr,       \* the error code of the error log
  ioBuilt,     \* the constructs of the module under construction
  ioRet,       \* the returned flag: "none" | "true" | "false"
  ioOut,       \* what writeSpirv has written to the output stream
  ioModule,    \* what readSpirv has put in the caller's module pointer
  ioMsg,       \* the caller's diagnostic string ErrMsg
  ioPasses,    \* the passes that have run on the input module
  ioLegal,    \* what regularize and the Legalizer's runOnModule returned
  \* ---- integer constants wider than 64 bits
  apIn,        \* the LLVM constant: its bit width and its value
  apConst,     \* the SPIR-V constant: its bit width and its words
  apOut,       \* the LLVM constant the reader builds
  apPc,        \* "encode" | "decode" | "done" | "idle"
  \* ---- global variables
  gkLLVM,      \* the LLVM global variable to encode
  gkExt,       \* whether SPV_KHR_linkonce_odr is allowed
  gkVar,       \* the SPIR-V variable
  gkOut,       \* the LLVM global variable the reader builds
  gkPc,        \* "encode" | "decode" | "done" | "idle"
  \* ---- decorations
  dcIn,        \* the annotation string and its target, or the decorations of a SPIR-V value
  dcOut,       \* the decorations or attributes of the target
  dcErr,       \* the error code of the error log
  dcPc,        \* "start" | "done" | "aborted" | "idle"
  \* ---- basic blocks of a function
  bbDir,       \* "dec", "enc", or "idle"
  bbFn,        \* the basic blocks of the function
  bbCalls,     \* the calls of transValue that transFunction makes, in order
  bbK,         \* the next call
  bbMap,       \* the blocks that have a target block in the value table
  bbInsts,     \* the number of instructions translated
  bbMissed,    \* the instructions that met a block without target block
  \* ---- the expansion of signed modulo
  smA,         \* the dividend
  smB,         \* the divisor
  smRes,       \* the results of the instructions of the expansion
  smPc         \* "start" | "done" | "idle"

varsLoop == <<loopMD, lcPc, lcMask, lcParams, decMD>>

varsValue == <<vDir, vSrc, vMap, vPh, vObjs, vPc, vCrash, vLog>>

varsType == <<tDir, tGraph, tRoot, tMap, tObjs, tCalls, tPc, tEvents>>

varsFP == <<fCalls, fDefs, fMap, fCur, fInst, fQueue, fFPC, fPc, fSteps, fChanges, fEnq>>

varsLegal == <<lIn, lFns, lModes, lExt, lPc, lBFs, lEmitted, lDec>>

varsIO == <<ioDir, ioIn, ioPc, ioNext, ioErr, ioBuilt, ioRet, ioOut, ioModule,
            ioMsg, ioPasses, ioLegal>>

varsAPInt == <<apIn, apConst, apOut, apPc>>

varsLinkage == <<gkLLVM, gkExt, gkVar, gkOut, gkPc>>

varsDeco == <<dcIn, dcOut, dcErr, dcPc>>

varsBlock == <<bbDir, bbFn, bbCalls, bbK, bbMap, bbInsts, bbMissed>>

varsSMod == <<smA, smB, smRes, smPc>>

vars == <<varsLoop, varsValue, varsType, varsFP, varsLegal, varsIO, varsAPInt, varsLinkage, varsDeco, varsBlock, varsSMod>>

\* the variables each mechanism leaves alone
othersLoop == <<varsValue, varsType, varsFP, varsLegal, varsIO, varsAPInt, varsLinkage, varsDeco, varsBlock, varsSMod>>
othersValue == <<varsLoop, varsType, varsFP, varsLegal, varsIO, varsAPInt, varsLinkage, varsDeco, varsBlock, varsSMod>>
othersType == <<varsLoop, varsValue, varsFP, varsLegal, varsIO, varsAPInt, varsLinkage, varsDeco, varsBlock, varsSMod>>
othersFP == <<varsLoop, varsValue, varsType, varsLegal, varsIO, varsAPInt, varsLinkage, varsDeco, varsBlock, varsSMod>>
othersIO == <<varsLoop, varsValue, varsType, varsFP, varsLegal, varsAPInt, varsLinkage, varsDeco, varsBlock, varsSMod>>
othersLegal == <<varsLoop, varsValue, varsType, varsFP, varsIO, varsAPInt, varsLinkage, varsDeco, varsBlock, varsSMod>>

othersAPInt == <<varsLoop, varsValue, varsType, varsFP, varsLegal, varsIO, varsLinkage, varsDeco, varsBlock, varsSMod>>

othersLinkage == <<varsLoop, varsValue, varsType, varsFP, varsLegal, varsIO, varsAPInt, varsDeco, varsBlock, varsSMod>>

othersDeco == <<varsLoop, varsValue, varsType, varsFP, varsLegal, varsIO, varsAPInt, varsLinkage, varsBlock, varsSMod>>

othersBlock == <<varsLoop, varsValue, varsType, varsFP, varsLegal, varsIO, varsAPInt, varsLinkage, varsDeco, varsSMod>>

othersSMod == <<varsLoop, varsValue, varsType, varsFP, varsLegal, varsIO, varsAPInt, varsLinkage, varsDeco, varsBlock>>

\* the loop mechanism at rest
IdleLoop ==
  /\ loopMD = <<>>
  /\ lcPc = "idle"
  /\ lcMask = {}
  /\ lcParams = <<>>
  /\ decMD = [md |-> <<>>, dep |-> {}]

\* the value table at rest
IdleValue ==
  /\ vDir = "idle"
  /\ vSrc = <<>>
  /\ vMap = <<>>
  /\ vPh = {}
  /\ vObjs = <<>>
  /\ vPc = 0
  /\ vCrash = FALSE
  /\ vLog = <<>>

\* the type table at rest
IdleType ==
  /\ tDir = "idle"
  /\ tGraph = <<>>
  /\ tRoot = ""
  /\ tMap = <<>>
  /\ tObjs = <<>>
  /\ tCalls = 0
  /\ tPc = "idle"
  /\ tEvents = <<>>

\* the contraction status at rest
IdleFP ==
  /\ fCalls = <<>>
  /\ fDefs = <<>>
  /\ fMap = <<>>
  /\ fCur = 0
  /\ fInst = 0
  /\ fQueue = <<>>
  /\ fFPC = "UNDEF"
  /\ fPc = "idle"
  /\ fSteps = 0
  /\ fChanges = <<>>
  /\ fEnq = <<>>

\* the legalizer at rest
IdleLegal ==
  /\ lIn = <<>>
  /\ lFns = <<>>
  /\ lModes = <<>>
  /\ lExt = FALSE
  /\ lPc = "idle"
  /\ lBFs = <<>>
  /\ lEmitted = <<>>
  /\ lDec = <<>>

\* the entry points at rest
IdleIO ==
  /\ ioDir = "idle"
  /\ ioIn = <<>>
  /\ ioPc = "idle"
  /\ ioNext = 0
  /\ ioErr = "Success"
  /\ ioBuilt = <<>>
  /\ ioRet = "none"
  /\ ioOut = <<>>
  /\ ioModule = <<>>
  /\ ioMsg = ""
  /\ ioPasses = <<>>
  /\ ioLegal = <<>>

\* integer constants wider than 64 bits at rest
IdleAPInt ==
  /\ apIn = <<>>
  /\ apConst = <<>>
  /\ apOut = <<>>
  /\ apPc = "idle"

\* global variables at rest
IdleLinkage ==
  /\ gkLLVM = <<>>
  /\ gkExt = FALSE
  /\ gkVar = <<>>
  /\ gkOut = <<>>
  /\ gkPc = "idle"

\* decorations at rest
IdleDeco ==
  /\ dcIn = <<>>
  /\ dcOut = <<>>
  /\ dcErr = "Success"
  /\ dcPc = "idle"

\* basic blocks of a function at rest
IdleBlock ==
  /\ bbDir = "idle"
  /\ bbFn = <<>>
  /\ bbCalls = <<>>
  /\ bbK = 0
  /\ bbMap = {}
  /\ bbInsts = 0
  /\ bbMissed = {}

\* the expansion of signed modulo at rest
IdleSMod ==
  /\ smA = 0
  /\ smB = 0
  /\ smRes = <<>>
  /\ smPc = "idle"

\* the mechanisms other than the named one at rest
IdleButLoop == IdleValue /\ IdleType /\ IdleFP /\ IdleLegal /\ IdleIO /\ IdleAPInt /\ IdleLinkage /\ IdleDeco /\ IdleBlock /\ IdleSMod
IdleButValue == IdleLoop /\ IdleType /\ IdleFP /\ IdleLegal /\ IdleIO /\ IdleAPInt /\ IdleLinkage /\ IdleDeco /\ IdleBlock /\ IdleSMod
IdleButType == IdleLoop /\ IdleValue /\ IdleFP /\ IdleLegal /\ IdleIO /\ IdleAPInt /\ IdleLinkage /\ IdleDeco /\ IdleBlock /\ IdleSMod
IdleButFP == IdleLoop /\ IdleValue /\ IdleType /\ IdleLegal /\ IdleIO /\ IdleAPInt /\ IdleLinkage /\ IdleDeco /\ IdleBlock /\ IdleSMod
IdleButLegal == IdleLoop /\ IdleValue /\ IdleType /\ IdleFP /\ IdleIO /\ IdleAPInt /\ IdleLinkage /\ IdleDeco /\ IdleBlock /\ IdleSMod
IdleButIO == IdleLoop /\ IdleValue /\ IdleType /\ IdleFP /\ IdleLegal /\ IdleAPInt /\ IdleLinkage /\ IdleDeco /\ IdleBlock /\ IdleSMod
IdleButAPInt == IdleLoop /\ IdleValue /\ IdleType /\ IdleFP /\ IdleLegal /\ IdleIO /\ IdleLinkage /\ IdleDeco /\ IdleBlock /\ IdleSMod
IdleButLinkage == IdleLoop /\ IdleValue /\ IdleType /\ IdleFP /\ IdleLegal /\ IdleIO /\ IdleAPInt /\ IdleDeco /\ IdleBlock /\ IdleSMod
IdleButDeco == IdleLoop /\ IdleValue /\ IdleType /\ IdleFP /\ IdleLegal /\ IdleIO /\ IdleAPInt /\ IdleLinkage /\ IdleBlock /\ IdleSMod
IdleButBlock == IdleLoop /\ IdleValue /\ IdleType /\ IdleFP /\ IdleLegal /\ IdleIO /\ IdleAPInt /\ IdleLinkage /\ IdleDeco /\ IdleSMod
IdleButSMod == IdleLoop /\ IdleValue /\ IdleType /\ IdleFP /\ IdleLegal /\ IdleIO /\ IdleAPInt /\ IdleLinkage /\ IdleDeco /\ IdleBlock

(***************************************************************************)
(* Helpers                                                                 *)
(***************************************************************************)
Range(s) == {s[i] : i \in DOMAIN s}

RECURSIVE SeqsUpTo(_, _)
\* all sequences over S of length at most n
SeqsUpTo(S, n) ==
  IF n = 0 THEN {<<>>}
  ELSE LET shorter == SeqsUpTo(S, n - 1)
       IN  shorter \cup {Append(s, x) : s \in shorter, x \in S}

(***************************************************************************)
(* Loop-control hints                                                      *)
(***************************************************************************)
\* spv::LoopControlMask bits used by the translator
LoopControlUnrollMask == 1
LoopControlDontUnrollMask == 2
LoopControlDependencyInfiniteMask == 4
LoopControlDependencyLengthMask == 8
LoopControlMinIterationsMask == 16
LoopControlMaxIterationsMask == 32
LoopControlIterationMultipleMask == 64
LoopControlPeelCountMask == 128
LoopControlPartialCountMask == 256
InitiationIntervalINTEL == 65536
MaxConcurrencyINTEL == 131072
DependencyArrayINTEL == 262144

\* bounds of the loop inputs
MaxHints == 2
MaxHintArg == 2

\* A hint is one operand of !llvm.loop: its name string, its integer
\* operand (0 when it has none) and, for parallel_access_indices, the ids
\* of the array variables of its index groups.
Hint(n, a, arr) == [name |-> n, arg |-> a, arrays |-> arr]

HintArgs == {1, 4} \cup (1 .. MaxHintArg)

HintUniverse ==
  {Hint(n, 0, <<>>) : n \in {"llvm.loop.unroll.disable", "llvm.loop.unroll.full",
                            "llvm.loop.unroll.enable", "llvm.loop.ivdep.enable"}}
  \cup {Hint(n, a, <<>>) : n \in {"llvm.loop.unroll.count", "llvm.loop.ivdep.safelen",
                                  "llvm.loop.ii.count",
                                  "llvm.loop.max_concurrency.count"},
                            a \in HintArgs}
  \cup {Hint("llvm.loop.parallel_access_indices", a, <<7>>) : a \in {0, 3}}

\* the accumulator of getLoopControl: LoopControl, Parameters and
\* DependencyArrayParameters
LCStart == [mask |-> {}, params |-> <<>>, dep |-> <<>>]

\* one iteration of the loop over LoopMD->operands()
LCOperand(acc, h) ==
  LET S == h.name IN
  IF S = "llvm.loop.unroll.disable"
  THEN [acc EXCEPT !.mask = @ \cup {LoopControlDontUnrollMask}]
  ELSE IF S = "llvm.loop.unroll.full" \/ S = "llvm.loop.unroll.enable"
  THEN [acc EXCEPT !.mask = @ \cup {LoopControlUnrollMask}]
  ELSE IF S = "llvm.loop.unroll.count" /\ LoopControlDontUnrollMask \notin acc.mask
  THEN [acc EXCEPT !.params = Append(@, h.arg),
                   !.mask = @ \cup {LoopControlPartialCountMask}]
  ELSE IF S = "llvm.loop.ivdep.enable"
  THEN [acc EXCEPT !.mask = @ \cup {LoopControlDependencyInfiniteMask}]
  ELSE IF S = "llvm.loop.ivdep.safelen"
  THEN [acc EXCEPT !.params = Append(@, h.arg),
                   !.mask = @ \cup {LoopControlDependencyLengthMask}]
  ELSE IF S = "llvm.loop.ii.count"
  THEN [acc EXCEPT !.params = Append(@, h.arg),
                   !.mask = @ \cup {InitiationIntervalINTEL}]
  ELSE IF S = "llvm.loop.max_concurrency.count"
  THEN [acc EXCEPT !.params = Append(@, h.arg),
                   !.mask = @ \cup {MaxConcurrencyINTEL}]
  ELSE IF S = "llvm.loop.parallel_access_indices"
  THEN [acc EXCEPT !.dep = @ \o [i \in DOMAIN h.arrays |-> <<h.arrays[i], h.arg>>]]
  ELSE acc

RECURSIVE LCOperands(_, _, _)
LCOperands(md, i, acc) ==
  IF i > Len(md) THEN acc ELSE LCOperands(md, i + 1, LCOperand(acc, md[i]))

RECURSIVE FlattenPairs(_)
FlattenPairs(ps) ==
  IF ps = <<>> THEN <<>> ELSE <<Head(ps)[1], Head(ps)[2]>> \o FlattenPairs(Tail(ps))

\* the held-back dependency-array parameters are appended last
LCDependencyArray(acc) ==
  IF acc.dep # <<>>
  THEN [acc EXCEPT !.params = (@ \o <<Len(acc.dep)>>) \o FlattenPairs(acc.dep),
                   !.mask = @ \cup {DependencyArrayINTEL}]
  ELSE acc

\* getLoopControl(Branch, Parameters, IndexGroupArrayMap)
getLoopControl(md) == LCDependencyArray(LCOperands(md, 1, LCStart))

\* LoopControlParameters[NumParam]; reading past the end of the vector is
\* undefined, the word read is then g
ParamAt(params, NumParam, g) ==
  IF NumParam < Len(params) THEN params[NumParam + 1] ELSE g

\* the <array, safelen> pairs read for the DependencyArrayINTEL bit, from
\* index n (the pair count sits at n, the loop pre-increments NumParam)
RECURSIVE DepPairs(_, _, _, _)
DepPairs(params, n, stop, g) ==
  IF n < stop
  THEN <<<<ParamAt(params, n + 1, g), ParamAt(params, n + 2, g)>>>>
         \o DepPairs(params, n + 2, stop, g)
  ELSE <<>>

\* a partial count of 1 under the Unroll bit asks for full unrolling; the
\* variant forgets the Unroll bit
PartialCountIsFull_AnyMask(v, LC) == v = 1

PartialCountIsFull(v, LC) == v = 1 /\ LoopControlUnrollMask \in LC

\* setLLVMLoopMetadata: the operands pushed to Metadata after the self
\* reference, for the mask LC and the parameters params
setLLVMLoopMetadata(LC, params, g) ==
  LET unroll ==
        IF LoopControlUnrollMask \in LC /\ LoopControlPartialCountMask \notin LC
        THEN <<Hint("llvm.loop.unroll.enable", 0, <<>>)>>
        ELSE IF LoopControlDontUnrollMask \in LC
        THEN <<Hint("llvm.loop.unroll.disable", 0, <<>>)>>
        ELSE <<>>
      ivdep ==
        IF LoopControlDependencyInfiniteMask \in LC
        THEN <<Hint("llvm.loop.ivdep.enable", 0, <<>>)>> ELSE <<>>
      hasLen == LoopControlDependencyLengthMask \in LC /\ params # <<>>
      safelen ==
        IF hasLen THEN <<Hint("llvm.loop.ivdep.safelen", ParamAt(params, 0, g), <<>>)>>
        ELSE <<>>
      n1 == IF hasLen THEN 1 ELSE 0
      n2 == n1 + (IF LoopControlMinIterationsMask \in LC THEN 1 ELSE 0)
               + (IF LoopControlMaxIterationsMask \in LC THEN 1 ELSE 0)
               + (IF LoopControlIterationMultipleMask \in LC THEN 1 ELSE 0)
               + (IF LoopControlPeelCountMask \in LC THEN 1 ELSE 0)
      hasCount == LoopControlPartialCountMask \in LC
                    /\ LoopControlDontUnrollMask \notin LC
      count ==
        IF hasCount
        THEN IF PartialCountIsFull(ParamAt(params, n2, g), LC)
             THEN <<Hint("llvm.loop.unroll.full", 0, <<>>)>>
             ELSE <<Hint("llvm.loop.unroll.count", ParamAt(params, n2, g), <<>>)>>
        ELSE <<>>
      n3 == n2 + (IF hasCount THEN 1 ELSE 0)
      ii ==
        IF InitiationIntervalINTEL \in LC
        THEN <<Hint("llvm.loop.ii.count", ParamAt(params, n3, g), <<>>)>> ELSE <<>>
      n4 == n3 + (IF InitiationIntervalINTEL \in LC THEN 1 ELSE 0)
      conc ==
        IF MaxConcurrencyINTEL \in LC
        THEN <<Hint("llvm.loop.max_concurrency.count", ParamAt(params, n4, g), <<>>)>>
        ELSE <<>>
      n5 == n4 + (IF MaxConcurrencyINTEL \in LC THEN 1 ELSE 0)
      pairs ==
        IF DependencyArrayINTEL \in LC
        THEN DepPairs(params, n5, n5 + ParamAt(params, n5, g) * 2, g)
        ELSE <<>>
      \* one parallel_access_indices node per distinct safelen, in
      \* ascending safelen order (std::map), listing its array variables
      safelens == {p[2] : p \in Range(pairs)}
      ArraysOf(s) == {p[1] : p \in {q \in Range(pairs) : q[2] = s}}
  IN  [md |-> unroll \o ivdep \o safelen \o count \o ii \o conc,
       dep |-> {<<s, ArraysOf(s)>> : s \in safelens}]

\* the loop starts with any operand list within the bounds
InitLoop ==
  /\ loopMD \in SeqsUpTo(HintUniverse, MaxHints)
  /\ lcPc = "src"
  /\ lcMask = {}
  /\ lcParams = <<>>
  /\ decMD = [md |-> <<>>, dep |-> {}]
  /\ IdleButLoop

\* LLVMToSPIRV: the loop-merge instruction gets the mask and parameters
EncodeLoop ==
  /\ lcPc = "src"
  /\ LET r == getLoopControl(loopMD)
     IN  /\ lcMask' = r.mask
         /\ lcParams' = r.params
  /\ lcPc' = "encoded"
  /\ UNCHANGED <<loopMD, decMD, othersLoop>>

\* the garbage word an out-of-bounds read may give
GarbageWords == {0, 1}

\* SPIRVToLLVM: the decoder rebuilds the loop metadata from the instruction
DecodeLoop ==
  /\ lcPc = "encoded"
  /\ \E g \in GarbageWords : decMD' = setLLVMLoopMetadata(lcMask, lcParams, g)
  /\ lcPc' = "decoded"
  /\ UNCHANGED <<loopMD, lcMask, lcParams, othersLoop>>

NextLoop == EncodeLoop \/ DecodeLoop

SpecLoop == InitLoop /\ [][NextLoop]_vars

\* the loop carries only an unroll-count hint
OnlyUnrollCount ==
  Len(loopMD) = 1 /\ loopMD[1].name = "llvm.loop.unroll.count"

\* C8: a loop carrying only an unroll-count hint N encodes to a loop merge
\* whose mask has exactly the partial-count bit and whose parameters are
\* <<N>>, and decoding that loop merge gives the unroll-count-N hint again.
C8_LoopHintRoundTrip ==
  OnlyUnrollCount =>
    /\ lcPc \in {"encoded", "decoded"} =>
         /\ lcMask = {LoopControlPartialCountMask}
         /\ lcParams = <<loopMD[1].arg>>
    /\ lcPc = "decoded" => decMD = [md |-> loopMD, dep |-> {}]

C8_Witness ==
  OnlyUnrollCount /\ loopMD[1].arg = 4 /\ lcPc = "decoded"

\* the integer operands of the hints of one name, in source order
ArgsOf(md, n) ==
  LET sel == SelectSeq(md, LAMBDA h : h.name = n)
  IN  [i \in DOMAIN sel |-> sel[i].arg]

\* the <array, safelen> pairs of the parallel_access_indices hints
RECURSIVE DepPairsOf(_)
DepPairsOf(md) ==
  IF md = <<>> THEN <<>>
  ELSE (IF Head(md).name = "llvm.loop.parallel_access_indices"
        THEN [i \in DOMAIN Head(md).arrays |-> <<Head(md).arrays[i], Head(md).arg>>]
        ELSE <<>>) \o DepPairsOf(Tail(md))

\* the parameters in the precedence order unroll, ivdep, initiation
\* interval, concurrency, dependency array
PrecedenceParams(md) ==
  ArgsOf(md, "llvm.loop.unroll.count") \o ArgsOf(md, "llvm.loop.ivdep.safelen")
    \o ArgsOf(md, "llvm.loop.ii.count")
    \o ArgsOf(md, "llvm.loop.max_concurrency.count")
    \o (IF DepPairsOf(md) = <<>> THEN <<>>
        ELSE <<Len(DepPairsOf(md))>> \o FlattenPairs(DepPairsOf(md)))

\* C9: the encoder emits the loop-control parameters in the fixed
\* precedence order unroll, ivdep, initiation interval, concurrency,
\* dependency array, whatever the order of the hints in the loop metadata
\* (stated for loops without an unroll-disable hint, which would drop the
\* unroll count).
C9_FixedPrecedenceOrder ==
  (lcPc # "src" /\ \A i \in DOMAIN loopMD : loopMD[i].name # "llvm.loop.unroll.disable")
    => lcParams = PrecedenceParams(loopMD)

\* C27: the encoder never produces a loop-control mask with both the
\* dont-unroll bit and the partial-count bit, whatever the order of the
\* unroll-disable and unroll-count hints in the loop metadata.
C27_NeverDontUnrollWithPartialCount ==
  lcPc \in {"encoded", "decoded"} =>
    ~(LoopControlDontUnrollMask \in lcMask /\ LoopControlPartialCountMask \in lcMask)

\* largest parameter word of a loop merge given to the decoder
MaxWord == 2

\* the mask bits that carry one parameter word, in ascending order
OneWordBits ==
  <<LoopControlDependencyLengthMask, LoopControlMinIterationsMask,
    LoopControlMaxIterationsMask, LoopControlIterationMultipleMask,
    LoopControlPeelCountMask, LoopControlPartialCountMask,
    InitiationIntervalINTEL, MaxConcurrencyINTEL>>

\* the mask bits of the loop merges given to the decoder
DecoderMaskBits ==
  {LoopControlUnrollMask, LoopControlDontUnrollMask,
   LoopControlDependencyLengthMask, LoopControlPeelCountMask,
   LoopControlPartialCountMask, InitiationIntervalINTEL, MaxConcurrencyINTEL,
   DependencyArrayINTEL}

\* the position of the first parameter word that belongs to the bit b
\* of the mask LC: the number of words of the smaller bits that are set
OwnPosition(LC, b) ==
  Cardinality({i \in DOMAIN OneWordBits : OneWordBits[i] \in LC /\ OneWordBits[i] < b})

\* the number of parameter words of a loop merge with the mask LC whose
\* dependency array, when it has one, lists one pair
WordsOf(LC) ==
  OwnPosition(LC, DependencyArrayINTEL)
    + (IF DependencyArrayINTEL \in LC THEN 3 ELSE 0)

\* a loop merge of a SPIR-V module with any of these masks and the
\* parameter words its bits call for, in ascending bit order
InitLoopDec ==
  /\ loopMD = <<>>
  /\ lcPc = "encoded"
  /\ lcMask \in SUBSET DecoderMaskBits
  /\ lcParams \in [1 .. WordsOf(lcMask) -> 1 .. MaxWord]
  /\ DependencyArrayINTEL \in lcMask =>
       lcParams[OwnPosition(lcMask, DependencyArrayINTEL) + 1] = 1
  /\ decMD = [md |-> <<>>, dep |-> {}]
  /\ IdleButLoop

SpecLoopDec == InitLoopDec /\ [][DecodeLoop]_vars

\* the integer operands of the decoded hints of the name n
DecodedArgs(n) == {decMD.md[i].arg : i \in {j \in DOMAIN decMD.md : decMD.md[j].name = n}}

\* the decoded hint of the name n carries the parameter word that
\* belongs to the bit b
ReadFromOwnPosition(b, n) ==
  b \in lcMask => DecodedArgs(n) = {lcParams[OwnPosition(lcMask, b) + 1]}

\* every parameterized hint but the partial count was read from its own
\* position
OthersFromOwnPosition ==
  /\ ReadFromOwnPosition(LoopControlDependencyLengthMask, "llvm.loop.ivdep.safelen")
  /\ ReadFromOwnPosition(InitiationIntervalINTEL, "llvm.loop.ii.count")
  /\ ReadFromOwnPosition(MaxConcurrencyINTEL, "llvm.loop.max_concurrency.count")
  /\ DependencyArrayINTEL \in lcMask =>
       LET n == OwnPosition(lcMask, DependencyArrayINTEL)
       IN  decMD.dep = {<<lcParams[n + 3], {lcParams[n + 2]}>>}

\* the partial count was read from its own position: a count of 1 under
\* the Unroll bit is decoded as full unrolling
PartialCountFromOwnPosition ==
  (LoopControlPartialCountMask \in lcMask /\ LoopControlDontUnrollMask \notin lcMask) =>
    LET v == lcParams[OwnPosition(lcMask, LoopControlPartialCountMask) + 1]
    IN  IF v = 1 /\ LoopControlUnrollMask \in lcMask
        THEN \E i \in DOMAIN decMD.md : decMD.md[i].name = "llvm.loop.unroll.full"
        ELSE DecodedArgs("llvm.loop.unroll.count") = {v}

\* C26: for every combination of mask bits, masks with both the
\* dont-unroll and the partial-count bit among them, the decoder reads
\* every parameterized hint (dependency length, partial count, initiation
\* interval, max concurrency, dependency array) from its own position.
C26_CursorAdvancesPerSetBit ==
  lcPc = "decoded" => OthersFromOwnPosition /\ PartialCountFromOwnPosition

\* the same for the masks that do not have both the dont-unroll and the
\* partial-count bit
C26_WithoutBothBits ==
  (lcPc = "decoded"
     /\ ~(LoopControlDontUnrollMask \in lcMask /\ LoopControlPartialCountMask \in lcMask))
    => OthersFromOwnPosition /\ PartialCountFromOwnPosition

(***************************************************************************)
(* The value table and the forward/placeholder protocol                    *)
(***************************************************************************)
\* number of instructions of the translated function
MaxInsts == 3

Insts == 1 .. MaxInsts

\* An instruction has at most one operand that is itself an instruction of
\* the function: ref is the operand (0: none) and ph is the
\* CreatePlaceHolder / CreateForward argument its translation passes.
NoOperand == [ref |-> 0, ph |-> FALSE]

\* A request that may not create a stand-in names an earlier instruction
\* (a definition that dominates the use); a request that may create one
\* names any other instruction (a PHI incoming value).
OperandsOf(i) ==
  {NoOperand}
    \cup {[ref |-> r, ph |-> TRUE] : r \in Insts \ {i}}
    \cup {[ref |-> r, ph |-> FALSE] : r \in 1 .. (i - 1)}

FunctionBodies ==
  {f \in [Insts -> UNION {OperandsOf(i) : i \in Insts}] :
     \A i \in Insts : f[i] \in OperandsOf(i)}

\* a target object: a stand-in ("ph": the load of a placeholder global in
\* the decoder, an OpForward in the encoder) or a real instruction
Obj(k, x, ops) == [kind |-> k, src |-> x, ops |-> ops, live |-> TRUE]

\* the outcomes of dereferencing the null result of dyn_cast<LoadInst>
UBOutcomes == {"fault", "replace"}

\* Value::replaceAllUsesWith(new) followed by eraseFromParent() of old
ReplaceUses(objs, old, new) ==
  [i \in DOMAIN objs |->
     IF i = old THEN [objs[i] EXCEPT !.live = FALSE]
     ELSE [objs[i] EXCEPT
             !.ops = [j \in DOMAIN objs[i].ops |->
                        IF objs[i].ops[j] = old THEN new ELSE objs[i].ops[j]]]]

\* the state a translation call works on and hands back; ret is the value
\* the call returns
VState(map, ph, objs, log, crash, ret) ==
  [map |-> map, ph |-> ph, objs |-> objs, log |-> log, crash |-> crash, ret |-> ret]

\* a variant of mapValue that overwrites the table entry and leaves the
\* stand-in and its uses in place
SPIRVToLLVM_mapValue_NoReplace(st, x, v, ub) ==
  [st EXCEPT !.map[x] = v, !.ret = v]

\* SPIRVToLLVM::mapValue(BV, V)
SPIRVToLLVM_mapValue(st, x, v, ub) ==
  IF st.map[x] # 0
  THEN IF st.map[x] = v
       THEN [st EXCEPT !.ret = v]
       ELSE IF st.objs[st.map[x]].kind = "ph" \/ ub = "replace"
       THEN [st EXCEPT !.objs = ReplaceUses(st.objs, st.map[x], v),
                       !.map[x] = v, !.ret = v]
       ELSE [st EXCEPT !.crash = TRUE, !.ret = 0]
  ELSE [st EXCEPT !.map[x] = v, !.ret = v]

\* SPIRVModule::replaceForward(Forward, BV)
replaceForward(objs, forward, bv) == ReplaceUses(objs, forward, bv)

\* LLVMToSPIRV::mapValue(V, BV)
LLVMToSPIRV_mapValue(st, x, v, ub) ==
  IF st.map[x] # 0
  THEN IF st.map[x] = v
       THEN [st EXCEPT !.ret = v]
       ELSE IF st.objs[st.map[x]].kind = "ph" \/ ub = "replace"
       THEN [st EXCEPT !.objs = replaceForward(st.objs, st.map[x], v),
                       !.map[x] = v, !.ret = v]
       ELSE [st EXCEPT !.crash = TRUE, !.ret = 0]
  ELSE [st EXCEPT !.map[x] = v, !.ret = v]

\* the record of a request for a value that is mapped to a real object:
\* the object it was mapped to, the object returned (0 when the request
\* ends in a fault) and the number of objects the request created
Request(x, before, after) ==
  [src |-> x, memo |-> before.map[x], ret |-> after.ret,
   made |-> Len(after.objs) - Len(before.objs)]

Resolved(st, x) == st.map[x] # 0 /\ st.objs[st.map[x]].kind = "real"

Logged(before, x, after) ==
  IF Resolved(before, x)
  THEN [after EXCEPT !.log = Append(@, Request(x, before, after))]
  ELSE after

RECURSIVE SPIRVToLLVM_transValue(_, _, _, _, _)
RECURSIVE SPIRVToLLVM_transValueWithoutDecoration(_, _, _, _, _)

\* SPIRVToLLVM::transValue(BV, F, BB, CreatePlaceHolder)
SPIRVToLLVM_transValue(st, body, x, CreatePlaceHolder, ub) ==
  IF st.crash THEN st
  ELSE IF st.map[x] # 0 /\ (x \notin st.ph \/ CreatePlaceHolder)
  THEN Logged(st, x, [st EXCEPT !.ret = st.map[x]])
  ELSE Logged(st, x,
         SPIRVToLLVM_transValueWithoutDecoration(st, body, x, CreatePlaceHolder, ub))

\* SPIRVToLLVM::transValueWithoutDecoration: the placeholder branch and
\* the translation of an instruction after its operand
SPIRVToLLVM_transValueWithoutDecoration(st, body, x, CreatePlaceHolder, ub) ==
  IF CreatePlaceHolder
  THEN LET LD == Len(st.objs) + 1
       IN  SPIRVToLLVM_mapValue(
             [st EXCEPT !.objs = Append(@, Obj("ph", x, <<>>)),
                        !.ph = @ \cup {x}],
             x, LD, ub)
  ELSE LET s1 == IF body[x].ref = 0 THEN st
                 ELSE SPIRVToLLVM_transValue(st, body, body[x].ref, body[x].ph, ub)
           ops == IF body[x].ref = 0 THEN <<>> ELSE <<s1.ret>>
           V == Len(s1.objs) + 1
       IN  IF s1.crash THEN s1
           ELSE SPIRVToLLVM_mapValue(
                  [s1 EXCEPT !.objs = Append(@, Obj("real", x, ops))], x, V, ub)

RECURSIVE LLVMToSPIRV_transValue(_, _, _, _, _)
RECURSIVE LLVMToSPIRV_transValueWithoutDecoration(_, _, _, _, _)

\* LLVMToSPIRV::transValue(V, BB, CreateForward)
LLVMToSPIRV_transValue(st, body, x, CreateForward, ub) ==
  IF st.crash THEN st
  ELSE IF st.map[x] # 0 /\ (st.objs[st.map[x]].kind # "ph" \/ CreateForward)
  THEN Logged(st, x, [st EXCEPT !.ret = st.map[x]])
  ELSE Logged(st, x,
         LLVMToSPIRV_transValueWithoutDecoration(st, body, x, CreateForward, ub))

\* LLVMToSPIRV::transValueWithoutDecoration: the forward branch and the
\* translation of an instruction after its operand
LLVMToSPIRV_transValueWithoutDecoration(st, body, x, CreateForward, ub) ==
  IF CreateForward
  THEN LET Fwd == Len(st.objs) + 1
       IN  LLVMToSPIRV_mapValue(
             [st EXCEPT !.objs = Append(@, Obj("ph", x, <<>>))], x, Fwd, ub)
  ELSE LET s1 == IF body[x].ref = 0 THEN st
                 ELSE LLVMToSPIRV_transValue(st, body, body[x].ref, body[x].ph, ub)
           ops == IF body[x].ref = 0 THEN <<>> ELSE <<s1.ret>>
           BV == Len(s1.objs) + 1
       IN  IF s1.crash THEN s1
           ELSE LLVMToSPIRV_mapValue(
                  [s1 EXCEPT !.objs = Append(@, Obj("real", x, ops))], x, BV, ub)

\* a function with any body within the bounds, about to be translated in
\* either direction
InitValue ==
  /\ vDir \in {"dec", "enc"}
  /\ vSrc \in FunctionBodies
  /\ vMap = [x \in Insts |-> 0]
  /\ vPh = {}
  /\ vObjs = <<>>
  /\ vPc = 1
  /\ vCrash = FALSE
  /\ vLog = <<>>
  /\ IdleButValue

VStart == VState(vMap, vPh, vObjs, <<>>, FALSE, 0)

\* the state after one iteration of the instruction loop
VStep(st) ==
  /\ vMap' = st.map
  /\ vPh' = st.ph
  /\ vObjs' = st.objs
  /\ vLog' = st.log
  /\ vCrash' = st.crash
  /\ vPc' = IF st.crash THEN vPc ELSE vPc + 1
  /\ UNCHANGED <<vDir, vSrc, othersValue>>

\* SPIRVToLLVM::transFunction: one iteration of the loop over the
\* instructions, transValue(BInst, F, BB, false)
DecodeInst ==
  /\ vDir = "dec" /\ ~vCrash /\ vPc \in Insts
  /\ \E ub \in UBOutcomes :
       VStep(SPIRVToLLVM_transValue(VStart, vSrc, vPc, FALSE, ub))

\* LLVMToSPIRV::transFunction: one iteration of the loop over the
\* instructions, transValue(&BI, BB, false)
EncodeInst ==
  /\ vDir = "enc" /\ ~vCrash /\ vPc \in Insts
  /\ \E ub \in UBOutcomes :
       VStep(LLVMToSPIRV_transValue(VStart, vSrc, vPc, FALSE, ub))

NextValue == DecodeInst \/ EncodeInst

SpecValue == InitValue /\ [][NextValue]_vars

\* the function has been translated without a fault
FunctionTranslated == vPc = MaxInsts + 1 /\ ~vCrash

IsStandIn(o) == vObjs[o].kind = "ph"

\* C1: after a function has been translated successfully, in either
\* direction, every instruction is mapped to a real value, no stand-in is
\* left in the output and no remaining instruction has a stand-in as an
\* operand.
C1_NoDanglingPlaceholders ==
  FunctionTranslated =>
    /\ \A x \in Insts : vMap[x] # 0 /\ ~IsStandIn(vMap[x]) /\ vObjs[vMap[x]].live
    /\ \A o \in DOMAIN vObjs :
         vObjs[o].live =>
           /\ ~IsStandIn(o)
           /\ \A j \in DOMAIN vObjs[o].ops : ~IsStandIn(vObjs[o].ops[j])

\* a translated function for which a stand-in was created and replaced
C1_Witness ==
  /\ FunctionTranslated
  /\ \E o \in DOMAIN vObjs : IsStandIn(o) /\ ~vObjs[o].live
  /\ \E o \in DOMAIN vObjs :
       vObjs[o].live /\ vObjs[o].ops # <<>> /\ vObjs[o].src < vObjs[vObjs[o].ops[1]].src

\* C2: a request for the translation of a source value that is mapped and
\* not in Forward state returns the target value it is mapped to and
\* creates no target object.
C2_IdempotentMemoization ==
  \A i \in DOMAIN vLog : vLog[i].ret = vLog[i].memo /\ vLog[i].made = 0

\* the state of the table entry of a source value
EntryState(map, objs, x) ==
  IF map[x] = 0 THEN "Untranslated"
  ELSE IF objs[map[x]].kind = "ph" THEN "Forward"
  ELSE "Resolved"

\* the step an entry takes is one of the state machine: a Resolved entry
\* keeps its target, a Forward entry stays or becomes Resolved, and then
\* the stand-in is discarded and nothing uses it any more
EntryStep(x) ==
  LET before == EntryState(vMap, vObjs, x)
      after == EntryState(vMap', vObjs', x)
  IN  /\ before = "Resolved" => vMap'[x] = vMap[x]
      /\ before = "Forward" => after \in {"Forward", "Resolved"}
      /\ (before = "Forward" /\ after = "Forward") => vMap'[x] = vMap[x]
      /\ (before = "Forward" /\ after = "Resolved") =>
           /\ ~vObjs'[vMap[x]].live
           /\ \A o \in DOMAIN vObjs' :
                vObjs'[o].live =>
                  \A j \in DOMAIN vObjs'[o].ops : vObjs'[o].ops[j] # vMap[x]

\* C20: in both directions an entry of the value table only moves from
\* Untranslated to Forward or Resolved and from Forward to Resolved; a
\* Resolved entry keeps its target, and the step from Forward to
\* Resolved rewrites every use of the stand-in.
C20_ValueStateMachine == [][\A x \in Insts : EntryStep(x)]_vars

(***************************************************************************)
(* The type table and the translation of recursive struct types            *)
(***************************************************************************)
\* largest number of members of a struct type
MaxMembers == 2

\* The source types: an integer, the structs S and T, a pointer to each
\* and an array.
TypeNames == {"i32", "pS", "pT", "aP", "S", "T"}

TypeKind(t) ==
  CASE t = "i32" -> "int"
    [] t \in {"pS", "pT"} -> "ptr"
    [] t = "aP" -> "array"
    [] t \in {"S", "T"} -> "struct"

\* A type graph gives the members of S (which may hold T by value), the
\* members of T and the element type of the array; every cycle of it
\* passes through a pointer.
RECURSIVE NonEmptySeqsUpTo(_, _)
NonEmptySeqsUpTo(S, n) ==
  IF n = 0 THEN {}
  ELSE {<<x>> : x \in S}
         \cup {Append(s, x) : s \in NonEmptySeqsUpTo(S, n - 1), x \in S}

TypeGraphs ==
  [S : NonEmptySeqsUpTo({"i32", "pS", "pT", "aP", "T"}, MaxMembers),
   T : NonEmptySeqsUpTo({"i32", "pS", "pT"}, MaxMembers),
   aP : {"pS", "pT"}]

\* getPointerElementType / getArrayElementType / the struct's elements
Elements(g, t) ==
  CASE t = "i32" -> <<>>
    [] t = "pS" -> <<"S">>
    [] t = "pT" -> <<"T">>
    [] t = "aP" -> <<g.aP>>
    [] t = "S" -> g.S
    [] t = "T" -> g.T

\* the translation is given up after this many calls of transType
TypeCallLimit == Cardinality(TypeNames) * (MaxMembers + 1)

\* a target type: its kind, the source type it was made for, the target
\* types it is built from (0: member not set) and whether its body is set
TObj(k, t, parts, body) == [kind |-> k, src |-> t, parts |-> parts, body |-> body]

\* the state a call of transType works on and hands back: ret is the
\* returned type, mt the member types collected by a member loop
TState(map, objs, calls) ==
  [map |-> map, objs |-> objs, calls |-> calls, div |-> FALSE, ret |-> 0, mt |-> <<>>,
   ev |-> <<>>]

\* a step of the translation of the struct t: it is registered in the
\* type table ("register"), the translation of the type of its member i
\* begins ("member"), its member i is set ("set"), it is closed ("close")
TEvent(op, t, i) == [op |-> op, struct |-> t, member |-> i]

\* mapType(T, Ty): TypeMap[T] = Ty
mapType(st, t, ty) == [st EXCEPT !.map[t] = ty, !.ret = ty]

\* a type made by a uniquing factory of the LLVM context
\* (PointerType::get, ArrayType::get, Type::getIntNTy)
GetType(st, k, t, parts) ==
  LET same == {i \in DOMAIN st.objs : st.objs[i].kind = k /\ st.objs[i].parts = parts}
  IN  IF same # {}
      THEN [st EXCEPT !.ret = CHOOSE i \in same : TRUE]
      ELSE [st EXCEPT !.objs = Append(@, TObj(k, t, parts, TRUE)),
                      !.ret = Len(st.objs) + 1]

\* a type added to the SPIR-V module (BM->addPointerType and the like)
AddType(st, k, t, parts, body) ==
  [st EXCEPT !.objs = Append(@, TObj(k, t, parts, body)), !.ret = Len(st.objs) + 1]

\* a variant that creates the struct and does not map it before its
\* members are translated
SPIRVToLLVM_createStruct_Unmapped(st, t) ==
  AddType(st, "struct", t, <<>>, FALSE)

\* StructType::create(*Context, Name); mapType(ST, StructTy)
SPIRVToLLVM_createStruct(st, t) ==
  LET s1 == AddType(st, "struct", t, <<>>, FALSE)
  IN  [mapType(s1, t, s1.ret) EXCEPT !.ev = Append(@, TEvent("register", t, 0))]

RECURSIVE SPIRVToLLVM_transType(_, _, _)
RECURSIVE SPIRVToLLVM_memberTypes(_, _, _, _, _)

\* SPIRVToLLVM::transType(T)
SPIRVToLLVM_transType(st, g, t) ==
  IF st.div THEN st
  ELSE IF st.calls >= TypeCallLimit THEN [st EXCEPT !.div = TRUE]
  ELSE
    LET s0 == [st EXCEPT !.calls = @ + 1]
    IN  IF s0.map[t] # 0 THEN [s0 EXCEPT !.ret = s0.map[t]]
        ELSE IF TypeKind(t) = "int"
        THEN LET s1 == GetType(s0, "int", t, <<>>) IN mapType(s1, t, s1.ret)
        ELSE IF TypeKind(t) \in {"ptr", "array"}
        THEN LET s1 == SPIRVToLLVM_transType(s0, g, Elements(g, t)[1])
                 s2 == GetType(s1, TypeKind(t), t, <<s1.ret>>)
             IN  IF s1.div THEN s1 ELSE mapType(s2, t, s2.ret)
        ELSE LET s1 == SPIRVToLLVM_createStruct(s0, t)
                 StructTy == s1.ret
                 s2 == SPIRVToLLVM_memberTypes(s1, g, t, 1, <<>>)
             IN  IF s2.div THEN s2
                 ELSE [s2 EXCEPT !.objs[StructTy].parts = s2.mt,
                                 !.objs[StructTy].body = TRUE,
                                 !.ev = @ \o [I \in DOMAIN s2.mt |-> TEvent("set", t, I)]
                                          \o <<TEvent("close", t, 0)>>,
                                 !.ret = StructTy]

\* the loop MT.push_back(transType(ST->getMemberType(I), true))
SPIRVToLLVM_memberTypes(st, g, t, I, MT) ==
  IF st.div THEN st
  ELSE IF I > Len(Elements(g, t)) THEN [st EXCEPT !.mt = MT]
  ELSE LET s0 == [st EXCEPT !.ev = Append(@, TEvent("member", t, I))]
           s1 == SPIRVToLLVM_transType(s0, g, Elements(g, t)[I])
       IN  SPIRVToLLVM_memberTypes(s1, g, t, I + 1, Append(MT, s1.ret))

\* isa<CompositeType>(Ty) || isa<PointerType>(Ty)
IsCompositeOrPointer(t) == TypeKind(t) \in {"struct", "array", "ptr"}

RECURSIVE recursiveType_Run(_, _, _, _)
RECURSIVE recursiveType_FindIf(_, _, _, _, _)

\* the lambda Run of recursiveType: the answer and the structs seen
recursiveType_Run(g, ST, Ty, Seen) ==
  IF ~IsCompositeOrPointer(Ty) THEN [found |-> FALSE, seen |-> Seen]
  ELSE IF TypeKind(Ty) = "struct"
  THEN IF Ty = ST THEN [found |-> TRUE, seen |-> Seen]
       ELSE IF Ty \in Seen THEN [found |-> FALSE, seen |-> Seen]
       ELSE recursiveType_FindIf(g, ST, Elements(g, Ty), 1, Seen \cup {Ty})
  ELSE recursiveType_Run(g, ST, Elements(g, Ty)[1], Seen)

\* find_if(element_begin, element_end, Run) != element_end
recursiveType_FindIf(g, ST, elems, i, Seen) ==
  IF i > Len(elems) THEN [found |-> FALSE, seen |-> Seen]
  ELSE LET r == recursiveType_Run(g, ST, elems[i], Seen)
       IN  IF r.found THEN r
           ELSE recursiveType_FindIf(g, ST, elems, i + 1, r.seen)

\* recursiveType(ST, Ty)
recursiveType(g, ST, Ty) == recursiveType_Run(g, ST, Ty, {}).found

\* BM->openStructType(NumElements, Name); mapType(T, Struct)
LLVMToSPIRV_openStruct(st, g, t) ==
  LET s1 == AddType(st, "struct", t, [i \in DOMAIN Elements(g, t) |-> 0], FALSE)
  IN  [mapType(s1, t, s1.ret) EXCEPT !.ev = Append(@, TEvent("register", t, 0))]

RECURSIVE LLVMToSPIRV_transType(_, _, _)
RECURSIVE LLVMToSPIRV_memberTypes(_, _, _, _, _, _)
RECURSIVE LLVMToSPIRV_forwardRefs(_, _, _, _, _)

\* LLVMToSPIRV::transType(T)
LLVMToSPIRV_transType(st, g, t) ==
  IF st.div THEN st
  ELSE IF st.calls >= TypeCallLimit THEN [st EXCEPT !.div = TRUE]
  ELSE
    LET s0 == [st EXCEPT !.calls = @ + 1]
    IN  IF s0.map[t] # 0 THEN [s0 EXCEPT !.ret = s0.map[t]]
        ELSE IF TypeKind(t) = "int"
        THEN LET s1 == AddType(s0, "int", t, <<>>, TRUE) IN mapType(s1, t, s1.ret)
        ELSE IF TypeKind(t) \in {"ptr", "array"}
        THEN LET s1 == LLVMToSPIRV_transType(s0, g, Elements(g, t)[1])
                 s2 == AddType(s1, TypeKind(t), t, <<s1.ret>>, TRUE)
             IN  IF s1.div THEN s1 ELSE mapType(s2, t, s2.ret)
        ELSE LET s1 == LLVMToSPIRV_openStruct(s0, g, t)
                 Struct == s1.ret
                 s2 == LLVMToSPIRV_memberTypes(s1, g, t, Struct, 1, <<>>)
                 ForwardRefs == s2.mt
                 \* BM->closeStructType(Struct, ST->isPacked())
                 s3 == [s2 EXCEPT !.objs[Struct].body = TRUE,
                                  !.ev = Append(@, TEvent("close", t, 0))]
                 s4 == LLVMToSPIRV_forwardRefs(s3, g, t, Struct, ForwardRefs)
             IN  IF s2.div THEN s2
                 ELSE IF s4.div THEN s4
                 ELSE [s4 EXCEPT !.ret = Struct]

\* the loop over the members: a member whose type leads back to the
\* struct is put off, any other is translated and set
LLVMToSPIRV_memberTypes(st, g, t, Struct, I, ForwardRefs) ==
  IF st.div THEN st
  ELSE IF I > Len(Elements(g, t)) THEN [st EXCEPT !.mt = ForwardRefs]
  ELSE LET ElemTy == Elements(g, t)[I]
       IN  IF IsCompositeOrPointer(ElemTy) /\ recursiveType(g, t, ElemTy)
           THEN LLVMToSPIRV_memberTypes(st, g, t, Struct, I + 1, Append(ForwardRefs, I))
           ELSE LET s0 == [st EXCEPT !.ev = Append(@, TEvent("member", t, I))]
                    s1 == LLVMToSPIRV_transType(s0, g, ElemTy)
                IN  IF s1.div THEN s1
                    ELSE LLVMToSPIRV_memberTypes(
                           [s1 EXCEPT !.objs[Struct].parts[I] = s1.ret,
                                      !.ev = Append(@, TEvent("set", t, I))],
                           g, t, Struct, I + 1, ForwardRefs)

\* a variant that leaves the members that were put off unset
LLVMToSPIRV_forwardRefs_Skipped(st, g, t, Struct, ForwardRefs) == st

\* for (auto I : ForwardRefs) Struct->setMemberType(I, transType(...))
LLVMToSPIRV_forwardRefs(st, g, t, Struct, ForwardRefs) ==
  IF st.div \/ ForwardRefs = <<>> THEN st
  ELSE LET I == Head(ForwardRefs)
           s0 == [st EXCEPT !.ev = Append(@, TEvent("member", t, I))]
           s1 == LLVMToSPIRV_transType(s0, g, Elements(g, t)[I])
       IN  IF s1.div THEN s1
           ELSE LLVMToSPIRV_forwardRefs(
                  [s1 EXCEPT !.objs[Struct].parts[I] = s1.ret,
                             !.ev = Append(@, TEvent("set", t, I))],
                  g, t, Struct, Tail(ForwardRefs))

\* any type graph within the bounds and a type of it to translate, in
\* either direction, with empty tables
InitType ==
  /\ tDir \in {"dec", "enc"}
  /\ tGraph \in TypeGraphs
  /\ tRoot \in {"S", "pS", "aP"}
  /\ tMap = [t \in TypeNames |-> 0]
  /\ tObjs = <<>>
  /\ tCalls = 0
  /\ tPc = "start"
  /\ tEvents = <<>>
  /\ IdleButType

TStep(st) ==
  /\ tMap' = st.map
  /\ tObjs' = st.objs
  /\ tCalls' = st.calls
  /\ tEvents' = st.ev
  /\ tPc' = IF st.div THEN "diverged" ELSE "done"
  /\ UNCHANGED <<tDir, tGraph, tRoot, othersType>>

\* SPIRVToLLVM::transType(tRoot), the whole call
DecodeType ==
  /\ tDir = "dec" /\ tPc = "start"
  /\ TStep(SPIRVToLLVM_transType(TState(tMap, tObjs, tCalls), tGraph, tRoot))

\* LLVMToSPIRV::transType(tRoot), the whole call
EncodeType ==
  /\ tDir = "enc" /\ tPc = "start"
  /\ TStep(LLVMToSPIRV_transType(TState(tMap, tObjs, tCalls), tGraph, tRoot))

NextType == DecodeType \/ EncodeType

SpecType == InitType /\ [][NextType]_vars

\* the target type o is built like the source type t, and where t leads
\* to a struct, o leads to the target struct that struct is mapped to
RECURSIVE Corresponds(_, _)
Corresponds(t, o) ==
  /\ o # 0
  /\ tObjs[o].kind = TypeKind(t)
  /\ IF TypeKind(t) = "struct" THEN o = tMap[t]
     ELSE IF TypeKind(t) = "int" THEN TRUE
     ELSE /\ Len(tObjs[o].parts) = 1
          /\ Corresponds(Elements(tGraph, t)[1], tObjs[o].parts[1])

\* the struct t refers to itself through its member i
SelfReference(t, i) ==
  /\ i \in DOMAIN Elements(tGraph, t)
  /\ IsCompositeOrPointer(Elements(tGraph, t)[i])
  /\ recursiveType(tGraph, t, Elements(tGraph, t)[i])

\* C3: translating a type of a graph in which structs refer to themselves
\* through pointers (directly, through an array or a nested struct, or
\* mutually) ends within TypeCallLimit calls of transType, in both
\* directions, and every member of every produced struct leads to the
\* produced struct of the source struct it leads to; in particular a
\* self-referring member leads back to the produced struct itself.
C3_CycleTermination ==
  tPc \notin {"idle", "start"} =>
    /\ tPc = "done"
    /\ tCalls <= TypeCallLimit
    /\ tMap[tRoot] # 0
    /\ \A t \in {"S", "T"} :
         tMap[t] # 0 =>
           /\ tObjs[tMap[t]].body
           /\ Len(tObjs[tMap[t]].parts) = Len(Elements(tGraph, t))
           /\ \A i \in DOMAIN Elements(tGraph, t) :
                Corresponds(Elements(tGraph, t)[i], tObjs[tMap[t]].parts[i])

\* a finished translation of S holding a pointer to itself inside an
\* array and referring mutually with T
C3_Witness ==
  /\ tPc = "done"
  /\ tGraph.S = <<"aP", "pT">> /\ tGraph.aP = "pS" /\ tGraph.T = <<"pS">>
  /\ SelfReference("S", 1) /\ SelfReference("S", 2)
  /\ tMap["S"] # 0 /\ tMap["T"] # 0

\* the places of the steps of a kind of the struct t in the translation
EventsAt(op, t) ==
  {n \in DOMAIN tEvents : tEvents[n].op = op /\ tEvents[n].struct = t}

\* the members of t whose type leads back to t
ForwardMembers(t) == {i \in DOMAIN Elements(tGraph, t) : SelfReference(t, i)}

MaxCalls == 2

\* the functions with a body; B is a declaration without one, blt a
\* declaration of a builtin that is translated to an instruction
Defined == {"A", "C", "D"}

ModuleOrder == <<"A", "C", "D">>

Functions == Defined \cup {"B", "blt"}

\* the lattice of LLVMToSPIRV::FPContract
FPContract == {"UNDEF", "ENABLED", "DISABLED"}

\* the call instructions of each function, in order; D calls C or nothing
CallGraphs ==
  [A : SeqsUpTo({"A", "C", "B", "blt"}, MaxCalls),
   C : SeqsUpTo({"A", "C", "B", "blt"}, MaxCalls),
   D : {<<>>, <<"C">>}]

\* the orders in which the module lists the functions with a body
DefOrders ==
  {o \in [1 .. Cardinality(Defined) -> Defined] :
     \A i, j \in DOMAIN o : i # j => o[i] # o[j]}

\* the call instructions of the module as <<caller, callee>>
RECURSIVE CallSites(_, _)
CallSites(calls, i) ==
  IF i > Len(ModuleOrder) THEN <<>>
  ELSE [k \in DOMAIN calls[ModuleOrder[i]] |->
          <<ModuleOrder[i], calls[ModuleOrder[i]][k]>>]
         \o CallSites(calls, i + 1)

\* F->users(): the call instructions that call F, each known by the
\* function it is in
Users(calls, F) ==
  LET sites == SelectSeq(CallSites(calls, 1), LAMBDA s : s[2] = F)
  IN  [k \in DOMAIN sites |-> <<"inst", sites[k][1]>>]

\* getFPContract(F)
getFPContract(map, F) == map[F]

\* a variant that never lowers ENABLED to DISABLED
joinFPContract_NoDowngrade(map, F, C) ==
  IF map[F] = "UNDEF" /\ C # "UNDEF"
  THEN [map |-> [map EXCEPT ![F] = C], changed |-> TRUE]
  ELSE [map |-> map, changed |-> FALSE]

\* a variant that stores whatever status it is given
joinFPContract_Overwrite(map, F, C) ==
  [map |-> [map EXCEPT ![F] = C], changed |-> TRUE]

\* a variant that always reports a change
joinFPContract_AlwaysChanged(map, F, C) ==
  [map |-> IF map[F] = "UNDEF" \/ (map[F] = "ENABLED" /\ C = "DISABLED")
           THEN [map EXCEPT ![F] = C] ELSE map,
   changed |-> TRUE]

\* joinFPContract(F, C): the new map and the returned flag
joinFPContract(map, F, C) ==
  IF map[F] = "UNDEF"
  THEN IF C # "UNDEF"
       THEN [map |-> [map EXCEPT ![F] = C], changed |-> TRUE]
       ELSE [map |-> map, changed |-> FALSE]
  ELSE IF map[F] = "ENABLED"
  THEN IF C = "DISABLED"
       THEN [map |-> [map EXCEPT ![F] = C], changed |-> TRUE]
       ELSE [map |-> map, changed |-> FALSE]
  ELSE [map |-> map, changed |-> FALSE]

\* a module with any call graph within the bounds and any order of its
\* functions, before the first function is translated
InitFP ==
  /\ fCalls \in CallGraphs
  /\ fDefs \in DefOrders
  /\ fMap = [F \in Functions |-> "UNDEF"]
  /\ fCur = 1
  /\ fInst = 1
  /\ fQueue = <<>>
  /\ fFPC = "UNDEF"
  /\ fPc = "body"
  /\ fSteps = 0
  /\ fChanges = [F \in Functions |-> 0]
  /\ fEnq = [F \in Functions |-> 0]
  /\ IdleButFP

\* the function being translated
CurFn == fDefs[fCur]

\* the count of status changes after the map went from old to new
Changed(old, new) ==
  [F \in Functions |-> IF new[F] # old[F] THEN fChanges[F] + 1 ELSE fChanges[F]]

\* LLVMToSPIRV::transDirectCallInst for the next call instruction of the
\* function being translated
TransDirectCallInst ==
  /\ fPc = "body" /\ fInst <= Len(fCalls[CurFn])
  /\ LET Callee == fCalls[CurFn][fInst]
         j == IF Callee = "blt" THEN [map |-> fMap, changed |-> FALSE]
              ELSE IF Callee \notin Defined
              THEN joinFPContract(fMap, CurFn, "DISABLED")
              ELSE joinFPContract(fMap, CurFn, getFPContract(fMap, Callee))
     IN  /\ fMap' = j.map
         /\ fChanges' = Changed(fMap, j.map)
  /\ fInst' = fInst + 1
  /\ UNCHANGED <<fCalls, fDefs, fCur, fQueue, fFPC, fPc, fSteps, fEnq, othersFP>>

\* LLVMToSPIRV::transFunction after the instructions: join ENABLED and
\* enter fpContractUpdateRecursive with the users of the function
TransFunctionEnd ==
  /\ fPc = "body" /\ fInst > Len(fCalls[CurFn])
  /\ LET joined == joinFPContract(fMap, CurFn, "ENABLED").map
     IN  /\ fMap' = joined
         /\ fFPC' = getFPContract(joined, CurFn)
         /\ fChanges' = Changed(fMap, joined)
  /\ fQueue' = Users(fCalls, CurFn)
  /\ fSteps' = 0
  /\ fPc' = "propagate"
  /\ UNCHANGED <<fCalls, fDefs, fCur, fInst, fEnq, othersFP>>

\* one iteration of the loop of fpContractUpdateRecursive
FpContractUpdateStep ==
  /\ fPc = "propagate" /\ fQueue # <<>>
  /\ LET U == Head(fQueue)
     IN  IF U[1] = "inst"
         THEN /\ fQueue' = Append(Tail(fQueue), <<"func", U[2]>>)
              /\ UNCHANGED <<fMap, fChanges, fEnq>>
         ELSE LET j == joinFPContract(fMap, U[2], fFPC)
              IN  /\ fMap' = j.map
                  /\ fChanges' = Changed(fMap, j.map)
                  /\ fQueue' = IF j.changed THEN Tail(fQueue) \o Users(fCalls, U[2])
                               ELSE Tail(fQueue)
                  /\ fEnq' = IF j.changed THEN [fEnq EXCEPT ![U[2]] = @ + 1]
                             ELSE fEnq
  /\ fSteps' = fSteps + 1
  /\ UNCHANGED <<fCalls, fDefs, fCur, fInst, fFPC, fPc, othersFP>>

\* fpContractUpdateRecursive returns; LLVMToSPIRV::translate goes on to
\* the next function of Defs
TransFunctionReturn ==
  /\ fPc = "propagate" /\ fQueue = <<>>
  /\ IF fCur < Len(fDefs)
     THEN fCur' = fCur + 1 /\ fInst' = 1 /\ fPc' = "body"
     ELSE fCur' = fCur /\ fInst' = fInst /\ fPc' = "done"
  /\ UNCHANGED <<fCalls, fDefs, fMap, fQueue, fFPC, fSteps, fChanges, fEnq, othersFP>>

NextFP ==
  \/ TransDirectCallInst
  \/ TransFunctionEnd
  \/ FpContractUpdateStep
  \/ TransFunctionReturn

SpecFP == InitFP /\ [][NextFP]_vars

Calls(F, G) == \E k \in DOMAIN fCalls[F] : fCalls[F][k] = G

\* the position of a function in the order of translation
OrderOf(F) == CHOOSE i \in DOMAIN fDefs : fDefs[i] = F

\* C4: if A holds a call to the body-less, non-builtin function B and C
\* calls A, then when the encoding of the functions has finished A and C
\* are both contraction-disabled, whatever the order of translation.
C4_ContractionPropagation ==
  (fPc = "done" /\ Calls("A", "B") /\ Calls("C", "A")) =>
    fMap["A"] = "DISABLED" /\ fMap["C"] = "DISABLED"

\* the finished encoding of such a module in which C was translated
\* before A
C4_Witness ==
  /\ fPc = "done" /\ Calls("A", "B") /\ Calls("C", "A")
  /\ OrderOf("C") < OrderOf("A")

\* the order UNDEF < ENABLED < DISABLED
FPContractRank(C) ==
  CASE C = "UNDEF" -> 0 [] C = "ENABLED" -> 1 [] C = "DISABLED" -> 2

\* C24: a function's contraction status only moves upward in the order
\* UNDEF < ENABLED < DISABLED: from every map the encoder reaches, a join
\* of any function with any status leaves the status or raises it and
\* leaves every other function alone, and it reports a change exactly
\* when the stored status changed; no step of the encoder lowers a status.
C24_StatusOnlyMovesUp ==
  /\ [](fPc # "idle" =>
         \A F \in Functions, C \in FPContract :
           LET j == joinFPContract(fMap, F, C)
           IN  /\ FPContractRank(j.map[F]) >= FPContractRank(fMap[F])
               /\ \A G \in Functions \ {F} : j.map[G] = fMap[G]
               /\ j.changed <=> (j.map[F] # fMap[F]))
  /\ [][fPc # "idle" =>
         \A F \in Functions :
           FPContractRank(fMap'[F]) >= FPContractRank(fMap[F])]_vars

\* a function went from UNDEF to ENABLED to DISABLED and the encoding
\* went on after that
C24_Witness ==
  /\ fPc = "done"
  /\ \E F \in Defined : fChanges[F] = 2 /\ fMap[F] = "DISABLED"
  /\ \E F \in Defined : fMap[F] = "ENABLED"

\* the number of call instructions of the module
NumCallSites == Len(CallSites(fCalls, 1))

\* C25: upward propagation terminates on every call graph: a run of the
\* loop of fpContractUpdateRecursive makes at most two iterations per
\* call instruction of the module, the users of a function are enqueued
\* by the loop only when its status changed, and the status of a
\* function changes at most twice.
C25_PropagationTerminates ==
  fPc # "idle" =>
    /\ fSteps <= 2 * NumCallSites
    /\ Len(fQueue) <= NumCallSites
    /\ \A F \in Functions : fEnq[F] <= fChanges[F] /\ fChanges[F] <= 2

\* the propagation has ended on a module in which A calls itself, A and
\* C call each other, and the users of A were enqueued by the loop
C25_Witness ==
  /\ fPc = "done"
  /\ Calls("A", "A") /\ Calls("A", "C") /\ Calls("C", "A")
  /\ fEnq["A"] > 0 /\ fEnq["C"] > 0

(***************************************************************************)
(* The Legalizer's entry-point wrappers and their encoding                 *)
(***************************************************************************)
\* largest number of operands of the named metadata spirv.ExecutionMode
MaxExecModes == 1

\* kSPIRVName::EntrypointPrefix, as the sequence of its characters
EntrypointPrefix ==
  <<"_", "_", "s", "p", "i", "r", "v", "_", "e", "n", "t", "r", "y", "_">>

\* the names of the functions of the input module, in module order;
\* function names are sequences of characters
InputNames == <<(<<"f">>), (<<"g">>)>>

\* the metadata kinds attached to functions; kernel_arg_type is read only
\* from functions with the kernel calling convention
MDKinds == {"kernel_arg_type", "dbg"}

EntryPointOnlyMD == {"kernel_arg_type"}

\* the execution modes; MaxWorkDimINTEL is emitted only under the
\* extension SPV_INTEL_kernel_attributes
ExecutionModes == {"LocalSize", "MaxWorkDimINTEL"}

GatedModes == {"MaxWorkDimINTEL"}

\* a function of the module: calls is the set of the names of the
\* functions its call instructions call
Fn(n, cc, body, linkage, md, attrs, calls) ==
  [name |-> n, cc |-> cc, body |-> body, linkage |-> linkage, md |-> md,
   attrs |-> attrs, calls |-> calls]

\* the functions an input module may hold under one name: a kernel or an
\* ordinary function, with a body (and calls) or without
InputFns(n) ==
  {Fn(n, cc, TRUE, "External", md, {"nounwind"}, calls) :
     cc \in {"SPIR_KERNEL", "SPIR_FUNC"}, md \in SUBSET MDKinds,
     calls \in SUBSET Range(InputNames)}
    \cup {Fn(n, cc, FALSE, "External", md, {}, {}) :
            cc \in {"SPIR_KERNEL", "SPIR_FUNC"}, md \in SUBSET MDKinds}

InputModules ==
  {m \in [DOMAIN InputNames -> UNION {InputFns(InputNames[i]) : i \in DOMAIN InputNames}] :
     \A i \in DOMAIN InputNames : m[i].name = InputNames[i]}

\* the kernels with a body: the functions a module may name in an
\* execution mode
KernelDefs(m) ==
  {m[i].name : i \in {j \in DOMAIN m : m[j].cc = "SPIR_KERNEL" /\ m[j].body}}

\* an operand of spirv.ExecutionMode: the function (NoFunction once the
\* function is erased) and the mode
ExecMode(F, EMode) == [fn |-> F, mode |-> EMode]

NoFunction == <<>>

InputExecModes(m) ==
  SeqsUpTo({ExecMode(F, EMode) : F \in KernelDefs(m), EMode \in ExecutionModes},
           MaxExecModes)

\* M->getFunction(Name): the index of the function, 0 when there is none
getFunction(m, Name) ==
  IF \E i \in DOMAIN m : m[i].name = Name
  THEN CHOOSE i \in DOMAIN m : m[i].name = Name
  ELSE 0

\* getOrCreateFunction(M, RetTy, ArgTypes, Name): the module with the
\* function in it
getOrCreateFunction(m, Name) ==
  IF getFunction(m, Name) # 0 THEN m
  ELSE Append(m, Fn(Name, "C", FALSE, "External", {}, {}, {}))

\* a variant that leaves the kernel calling convention on F
setCallingConvSPIRFunc_Keep(F) == F

\* F->setCallingConv(CallingConv::SPIR_FUNC)
setCallingConvSPIRFunc(F) == [F EXCEPT !.cc = "SPIR_FUNC"]

\* a variant that leaves the execution modes on F
replaceExecutionModeOperand_Keep(modes, F, WrapFn) == modes

\* the loop over spirv.ExecutionMode: an operand that names F is made to
\* name WrapFn
replaceExecutionModeOperand(modes, F, WrapFn) ==
  [i \in DOMAIN modes |->
     IF modes[i].fn = F THEN [modes[i] EXCEPT !.fn = WrapFn] ELSE modes[i]]

\* the body of the loop over Work for the function at index w
WrapKernel(st, w) ==
  LET m1 == [st.fns EXCEPT ![w] = setCallingConvSPIRFunc(@)]
      F == m1[w]
  IN  IF ~F.body THEN [st EXCEPT !.fns = m1]
      ELSE
        LET WrapName == EntrypointPrefix \o F.name
            m2 == getOrCreateFunction(m1, WrapName)
            k == getFunction(m2, WrapName)
            m3 == [m2 EXCEPT ![k] =
                     [@ EXCEPT !.body = TRUE,
                               !.calls = @ \cup {F.name},
                               !.attrs = F.attrs,
                               !.md = @ \cup F.md,
                               !.cc = "SPIR_KERNEL",
                               !.linkage = "Internal"]]
        IN  [fns |-> m3,
             modes |-> replaceExecutionModeOperand(st.modes, F.name, WrapName)]

RECURSIVE WrapKernels(_, _)
WrapKernels(st, Work) ==
  IF Work = <<>> THEN st
  ELSE WrapKernels(WrapKernel(st, Head(Work)), Tail(Work))

\* the indices of the functions that have the kernel calling convention
KernelWork(m) ==
  LET idx == [i \in DOMAIN m |-> i]
  IN  SelectSeq(idx, LAMBDA i : m[i].cc = "SPIR_KERNEL")

\* SPIRVRegularizeLLVM::addKernelEntryPoint(M)
addKernelEntryPoint(st) == WrapKernels(st, KernelWork(st.fns))

\* F->use_empty(): no call instruction calls F
use_empty(m, F) == \A i \in DOMAIN m : F.name \notin m[i].calls

\* regularize after addKernelEntryPoint: a declaration without a use is
\* erased, and a metadata operand that named it is cleared
eraseUnusedDeclarations(st) ==
  LET erased == {st.fns[i].name :
                   i \in {j \in DOMAIN st.fns :
                            ~st.fns[j].body /\ use_empty(st.fns, st.fns[j])}}
  IN  [fns |-> SelectSeq(st.fns, LAMBDA F : F.name \notin erased),
       modes |-> [i \in DOMAIN st.modes |->
                    IF st.modes[i].fn \in erased
                    THEN [st.modes[i] EXCEPT !.fn = NoFunction]
                    ELSE st.modes[i]]]

\* SPIRVRegularizeLLVM::regularize()
regularize(st) == eraseUnusedDeclarations(addKernelEntryPoint(st))

\* isKernel(F)
isKernel(F) == F.cc = "SPIR_KERNEL"

\* Name.substr(Prefix.size()); substr throws when the name is shorter
\* than the prefix
substrPrefix(Name) ==
  IF Len(Name) >= Len(EntrypointPrefix)
  THEN SubSeq(Name, Len(EntrypointPrefix) + 1, Len(Name))
  ELSE <<"out_of_range">>

\* LLVMToSPIRV::transFunctionDecl(F): the SPIR-V function added for F
transFunctionDecl(F) ==
  [src |-> F.name,
   name |-> IF isKernel(F) THEN substrPrefix(F.name) ELSE F.name,
   entry |-> isKernel(F)]

\* the indices of the functions of m in module order that satisfy Test
IndicesWhere(m, Test(_)) ==
  SelectSeq([i \in DOMAIN m |-> i], LAMBDA i : Test(m[i]))

\* the order in which LLVMToSPIRV::translate adds the functions to the
\* SPIR-V module, from the definition at Defs[d] on: transFunction calls
\* transFunctionDecl for the definition and, while it translates the
\* body, for every callee that has not been added yet (the callees of
\* one body are taken in module order)
RECURSIVE translateDefs(_, _, _, _)
translateDefs(m, Defs, d, added) ==
  IF d > Len(Defs) THEN added
  ELSE LET F == Defs[d]
           a1 == IF \E k \in DOMAIN added : added[k] = F THEN added
                 ELSE Append(added, F)
           callees == IndicesWhere(m, LAMBDA G : G.name \in m[F].calls)
           new == SelectSeq(callees, LAMBDA c : \A k \in DOMAIN a1 : a1[k] # c)
       IN  translateDefs(m, Defs, d + 1, a1 \o new)

\* LLVMToSPIRV::translate: transFunctionDecl for the declarations, then
\* transFunction for the definitions, both in module order
translateOrder(m) ==
  translateDefs(m, IndicesWhere(m, LAMBDA F : F.body), 1,
                IndicesWhere(m, LAMBDA F : ~F.body))

\* the SPIR-V functions the encoder makes of the module m, in the order
\* of the SPIR-V module; body and calls are what transFunction adds
EncodedFunctions(m) ==
  LET order == translateOrder(m)
  IN  [b \in DOMAIN order |->
         transFunctionDecl(m[order[b]])
           @@ [body |-> m[order[b]].body, calls |-> m[order[b]].calls]]

\* getTranslatedValue(F): the index of F's SPIR-V function, 0 for none
getTranslatedValue(bfs, F) ==
  IF \E b \in DOMAIN bfs : bfs[b].src = F
  THEN CHOOSE b \in DOMAIN bfs : bfs[b].src = F
  ELSE 0

\* the loop of LLVMToSPIRV::transExecutionMode from operand i on: the
\* execution modes added and whether the loop ran to its end
RECURSIVE transExecutionModeFrom(_, _, _, _, _)
transExecutionModeFrom(modes, bfs, ext, i, added) ==
  IF i > Len(modes) THEN [ok |-> TRUE, added |-> added]
  ELSE LET BF == getTranslatedValue(bfs, modes[i].fn)
       IN  IF BF = 0 THEN [ok |-> FALSE, added |-> added]
           ELSE IF modes[i].mode \in GatedModes /\ ~ext
           THEN transExecutionModeFrom(modes, bfs, ext, i + 1, added)
           ELSE transExecutionModeFrom(modes, bfs, ext, i + 1,
                  Append(added, [rec |-> i, bf |-> BF, mode |-> modes[i].mode]))

\* any module of two functions within the bounds, with execution modes
\* for its kernels, before the Legalizer runs
InitLegal ==
  /\ \E m \in InputModules, ext \in BOOLEAN :
       \E modes \in InputExecModes(m) :
         /\ lIn = [fns |-> m, modes |-> modes]
         /\ lFns = m
         /\ lModes = modes
         /\ lExt = ext
  /\ lPc = "input"
  /\ lBFs = <<>>
  /\ lEmitted = <<>>
  /\ lDec = <<>>
  /\ IdleButLegal

\* SPIRVRegularizeLLVM::runOnModule among the passes of writeSpirv, on
\* the module as the caller hands it over
Legalize ==
  /\ lPc \in {"input", "regularized"}
  /\ LET r == regularize([fns |-> lFns, modes |-> lModes])
     IN  lFns' = r.fns /\ lModes' = r.modes
  /\ lPc' = "legalized"
  /\ UNCHANGED <<lIn, lExt, lBFs, lEmitted, lDec, othersLegal>>

\* LLVMToSPIRV::translate: transFunctionDecl for every function
TransFunctions ==
  /\ lPc = "legalized"
  /\ lBFs' = EncodedFunctions(lFns)
  /\ lPc' = "functions"
  /\ UNCHANGED <<lIn, lFns, lModes, lExt, lEmitted, lDec, othersLegal>>

\* LLVMToSPIRV::transExecutionMode
TransExecutionMode ==
  /\ lPc = "functions"
  /\ LET r == transExecutionModeFrom(lModes, lBFs, lExt, 1, <<>>)
     IN  /\ lEmitted' = r.added
         /\ lPc' = IF r.ok THEN "encoded" ELSE "failed"
  /\ UNCHANGED <<lIn, lFns, lModes, lExt, lBFs, lDec, othersLegal>>

NextLegal == Legalize \/ TransFunctions \/ TransExecutionMode

SpecLegal == InitLegal /\ [][NextLegal]_vars

\* F is the target of a call instruction
IsCalled(m, Name) == \E i \in DOMAIN m : Name \in m[i].calls

\* the functions of the module with the given name
Named(m, Name) == {i \in DOMAIN m : m[i].name = Name}

KernelAndCallee(i) ==
  /\ isKernel(lIn.fns[i]) /\ lIn.fns[i].body
  /\ IsCalled(lIn.fns, lIn.fns[i].name)

\* C6: for a function used both as an entry point and as a called
\* function the Legalizer leaves exactly two distinct functions, an
\* internal-linkage wrapper that is the entry point and the original as an
\* ordinary function, and the entry-point-only metadata of the original
\* is on the wrapper and not on the ordinary function.
C6_TwoFunctionsWithRoleMetadata ==
  lPc # "input" =>
    \A i \in DOMAIN lIn.fns :
      KernelAndCallee(i) =>
        LET Orig == lIn.fns[i]
            F == Named(lFns, Orig.name)
            W == Named(lFns, EntrypointPrefix \o Orig.name)
        IN  /\ Cardinality(F) = 1 /\ Cardinality(W) = 1
            /\ \A w \in W :
                 /\ isKernel(lFns[w]) /\ lFns[w].linkage = "Internal"
                 /\ lFns[w].md \cap EntryPointOnlyMD = Orig.md \cap EntryPointOnlyMD
            /\ \A f \in F :
                 /\ lFns[f].cc = "SPIR_FUNC"
                 /\ lFns[f].md \cap EntryPointOnlyMD = {}
            /\ \A r \in DOMAIN lModes : lModes[r].fn # Orig.name

\* the execution mode i of the input names a kernel with a body
NamesKernel(i) == lIn.modes[i].fn \in KernelDefs(lIn.fns)

\* C7: every execution mode that named a kernel names that kernel's
\* wrapper after the Legalizer and none names the wrapped function; the
\* encoder adds it (unless its extension is off) to the SPIR-V function
\* it made from the wrapper, which is an entry point and has the
\* kernel's name, and adds no execution mode anywhere else.
C7_ExecutionModesFollowWrapper ==
  /\ lPc # "input" =>
       \A i \in DOMAIN lIn.modes :
         NamesKernel(i) =>
           /\ lModes[i].fn = EntrypointPrefix \o lIn.modes[i].fn
           /\ lModes[i].mode = lIn.modes[i].mode
           /\ \A r \in DOMAIN lModes : lModes[r].fn # lIn.modes[i].fn
  /\ lPc \in {"encoded", "failed"} =>
       /\ lPc = "encoded"
       /\ \A e \in DOMAIN lEmitted :
            /\ lBFs[lEmitted[e].bf].entry
            /\ lBFs[lEmitted[e].bf].src = lModes[lEmitted[e].rec].fn
            /\ lBFs[lEmitted[e].bf].name = lIn.modes[lEmitted[e].rec].fn
            /\ lEmitted[e].mode = lIn.modes[lEmitted[e].rec].mode
       /\ \A i \in DOMAIN lIn.modes :
            (lIn.modes[i].mode \notin GatedModes \/ lExt)
              => \E e \in DOMAIN lEmitted : lEmitted[e].rec = i

\* an encoded module in which a kernel that is also called had an
\* execution mode
C7_Witness ==
  /\ lPc = "encoded"
  /\ lEmitted # <<>>
  /\ \E i \in DOMAIN lIn.fns :
       KernelAndCallee(i) /\ lIn.modes[1].fn = lIn.fns[i].name

\* llvm::regularizeLlvmForSpirv called by the user before writeSpirv:
\* the pass manager runs the passes of addPassesForSPIRV, the Legalizer
\* among them, on the module
RegularizeLlvmForSpirv ==
  /\ lPc = "input"
  /\ LET r == regularize([fns |-> lFns, modes |-> lModes])
     IN  lFns' = r.fns /\ lModes' = r.modes
  /\ lPc' = "regularized"
  /\ UNCHANGED <<lIn, lExt, lBFs, lEmitted, lDec, othersLegal>>

NextLegalTwice ==
  \/ RegularizeLlvmForSpirv
  \/ Legalize
  \/ TransFunctions
  \/ TransExecutionMode

\* writeSpirv on a module, with or without a call of the public
\* regularize entry point before it
SpecLegalTwice == InitLegal /\ [][NextLegalTwice]_vars

\* the names under which the encoder exports the entry points of the
\* functions bfs
EntryPointNames(bfs) == {bfs[b].name : b \in {i \in DOMAIN bfs : bfs[i].entry}}

uniqueName(out, Name) ==
  IF \E i \in DOMAIN out : out[i].name = Name THEN Name \o <<".", "1">> ELSE Name

\* the state of the decoder: FuncMap, from the SPIR-V functions to the
\* functions of out (0 for none), and the LLVM module under construction
FState(bfs) == [FuncMap |-> [b \in DOMAIN bfs |-> 0], out |-> <<>>]

\* the search of transFunction for a function translated before that has
\* the name of the entry point b: the SPIR-V functions found
sameNameInFuncMap(st, bfs, b) ==
  {c \in DOMAIN bfs : st.FuncMap[c] # 0 /\ bfs[c].name = bfs[b].name}

\* SPIRVToLLVM::transFunction(BF) for the SPIR-V function b; the body of
\* a function is known by the name of the source function it was made
\* of, and translating a body translates the functions it calls
RECURSIVE SPIRVToLLVM_transFunctionBody(_, _, _)
SPIRVToLLVM_transFunctionBody(st, bfs, b) ==
  IF st.FuncMap[b] # 0 THEN st
  ELSE IF bfs[b].entry /\ sameNameInFuncMap(st, bfs, b) # {}
  THEN LET c == CHOOSE x \in sameNameInFuncMap(st, bfs, b) : TRUE
           F == st.FuncMap[c]
       IN  [st EXCEPT !.out[F].cc = "SPIR_KERNEL",
                      !.out[F].linkage = "External",
                      !.FuncMap[b] = F]
  ELSE LET F == [name |-> uniqueName(st.out, bfs[b].name),
                 cc |-> IF bfs[b].entry THEN "SPIR_KERNEL" ELSE "SPIR_FUNC",
                 linkage |-> "External",
                 body |-> IF bfs[b].body THEN bfs[b].src ELSE NoFunction]
           s1 == [st EXCEPT !.out = Append(@, F), !.FuncMap[b] = Len(st.out) + 1]
           callees == {c \in DOMAIN bfs : bfs[c].src \in bfs[b].calls}
       IN  IF callees = {} THEN s1
           ELSE SPIRVToLLVM_transFunctionBody(s1, bfs, CHOOSE c \in callees : TRUE)

\* SPIRVToLLVM::translate: transFunction for the functions of the SPIR-V
\* module in order
RECURSIVE SPIRVToLLVM_translate(_, _, _)
SPIRVToLLVM_translate(st, bfs, I) ==
  IF I > Len(bfs) THEN st
  ELSE SPIRVToLLVM_translate(SPIRVToLLVM_transFunctionBody(st, bfs, I), bfs, I + 1)

\* the functions a module to encode and decode may hold under the name
\* n: a kernel or an ordinary function, a declaration or a definition
\* that calls at most one function
FoldFns(n) ==
  {Fn(n, cc, TRUE, "External", {}, {"nounwind"}, calls) :
     cc \in {"SPIR_KERNEL", "SPIR_FUNC"},
     calls \in {{}} \cup {{InputNames[i]} : i \in DOMAIN InputNames}}
    \cup {Fn(n, cc, FALSE, "External", {}, {}, {}) : cc \in {"SPIR_KERNEL", "SPIR_FUNC"}}

\* the modules to encode and decode: the two functions, and before them
\* possibly a declaration that already has the name the Legalizer gives
\* the wrapper of f
FoldModules ==
  LET two == {m \in [DOMAIN InputNames -> UNION {FoldFns(InputNames[i]) : i \in DOMAIN InputNames}] :
                \A i \in DOMAIN InputNames : m[i].name = InputNames[i]}
      taken == Fn(EntrypointPrefix \o InputNames[1], "SPIR_FUNC", FALSE, "External", {}, {}, {})
  IN  two \cup {<<taken>> \o m : m \in two}

InitFold ==
  /\ \E m \in FoldModules :
       /\ lIn = [fns |-> m, modes |-> <<>>]
       /\ lFns = m
  /\ lModes = <<>>
  /\ lExt \in BOOLEAN
  /\ lPc = "input"
  /\ lBFs = <<>>
  /\ lEmitted = <<>>
  /\ lDec = <<>>
  /\ IdleButLegal

\* readSpirv on the encoded module
DecodeFunctions ==
  /\ lPc = "encoded"
  /\ lDec' = SPIRVToLLVM_translate(FState(lBFs), lBFs, 1).out
  /\ lPc' = "decoded"
  /\ UNCHANGED <<lIn, lFns, lModes, lExt, lBFs, lEmitted, othersLegal>>

NextFold ==
  \/ Legalize
  \/ TransFunctions
  \/ TransExecutionMode
  \/ DecodeFunctions

\* writeSpirv followed by readSpirv
SpecFold == InitFold /\ [][NextFold]_vars

\* encoding and decoding has given exactly one function named K, with
\* the kernel calling convention and the body of K
FoldedBack(K) ==
  /\ Cardinality({i \in DOMAIN lDec : lDec[i].name = K}) = 1
  /\ \A i \in DOMAIN lDec :
       lDec[i].name = K => lDec[i].cc = "SPIR_KERNEL" /\ lDec[i].body = K
  /\ \A i \in DOMAIN lDec : lDec[i].body = K => lDec[i].name = K
  /\ \A i \in DOMAIN lDec : lDec[i].body # EntrypointPrefix \o K

C28_WrappedFunctionFirst ==
  (lPc = "decoded" /\ Len(lIn.fns) = Len(InputNames))
    => \A K \in KernelDefs(lIn.fns) : FoldedBack(K)

(***************************************************************************)
(* The entry points writeSpirv and readSpirv and the error log             *)
(***************************************************************************)
\* largest number of constructs of a module
MaxItems == 2

\* The constructs an LLVM module holds, by what the encoder does with
\* them: "ok" is translated whatever the options; "wide_constant" is an
\* integer constant wider than 64 bits; "function_pointer" is a value of
\* a function-pointer type in a translation without the function-pointer
\* extension; "unknown_intrinsic" is a call of an LLVM intrinsic that
\* transIntrinsicInst has no case for.
EncoderItems == {"ok", "wide_constant", "function_pointer", "unknown_intrinsic"}

AddressingModels == {"Physical64", "Physical32", "Logical", "Other"}

\* what the build makes of reaching llvm_unreachable: the process is
\* aborted, or execution runs on into the statement that follows
UnreachableOutcomes == {"abort", "continue"}

\* SPIRVErrorLog::checkError(Cond, ErrCode, Msg): the log afterwards; the
\* first failure is kept
checkError(log, Cond, ErrCode) ==
  IF Cond \/ log # "Success" THEN log ELSE ErrCode

\* SPIRVModule::getError(ErrMsg): the text it stores in ErrMsg, the
\* message of the recorded error, empty when none is recorded
getError(log) == IF log = "Success" THEN "" ELSE log

\* a variant of isValidLLVMModule that accepts every triple
isValidLLVMModule_AnyTriple(log, supported) == [valid |-> TRUE, log |-> log]

\* isValidLLVMModule(M, ErrorLog) for a module with a supported or an
\* unsupported target triple
isValidLLVMModule(log, supported) ==
  [valid |-> supported, log |-> checkError(log, supported, "InvalidTargetTriple")]

\* SPIRVRegularizeLLVM::runOnModule: what regularize returns after
\* verifyModule and what runOnModule returns to the pass manager
SPIRVRegularizeLLVM_runOnModule(broken) == [verified |-> ~broken, ret |-> TRUE]

\* LLVMToSPIRV::transType of an integer type wider than 64 bits: the log
\* and whether a type is returned; without the extension the function
\* runs to its final llvm_unreachable
LLVMToSPIRV_transIntegerType(log, APInts) ==
  IF APInts THEN [log |-> log, mapped |-> TRUE, unreachable |-> FALSE]
  ELSE [log |-> checkError(log, FALSE, "InvalidBitWidth"),
        mapped |-> FALSE, unreachable |-> TRUE]

\* the ConstantInt case of transValueWithoutDecoration for a constant
\* wider than 64 bits
LLVMToSPIRV_transConstantInt(log, BM, APInts, ub) ==
  LET log1 == checkError(log, APInts, "InvalidBitWidth")
      T == LLVMToSPIRV_transIntegerType(log1, APInts)
  IN  IF T.unreachable /\ ub = "abort"
      THEN [log |-> T.log, BM |-> BM, aborted |-> TRUE]
      ELSE [log |-> T.log, BM |-> Append(BM, "constant"), aborted |-> FALSE]

\* a variant of the default case of transIntrinsicInst that records no
\* error
LLVMToSPIRV_transIntrinsicInst_Silent(log, BM, AllowUnknown) ==
  [log |-> log,
   BM |-> IF AllowUnknown THEN BM \o <<"declaration", "call">> ELSE BM]

\* the default case of transIntrinsicInst, with transFunctionDecl of the
\* intrinsic when unknown intrinsics are allowed
LLVMToSPIRV_transIntrinsicInst(log, BM, AllowUnknown) ==
  IF AllowUnknown
  THEN [log |-> log, BM |-> BM \o <<"declaration", "call">>]
  ELSE [log |-> checkError(log, FALSE, "InvalidFunctionCall"), BM |-> BM]

\* a variant of the end of writeSpirv that writes the module whatever
\* the error log holds
writeSpirvEnd_NoCheck(log, BM) ==
  [ret |-> "true", out |-> BM, msg |-> getError(log)]

\* the end of writeSpirv: the value returned, what is written to OS and
\* what ErrMsg is set to
writeSpirvEnd(log, BM) ==
  IF log # "Success" THEN [ret |-> "false", out |-> <<>>, msg |-> getError(log)]
  ELSE [ret |-> "true", out |-> BM, msg |-> getError(log)]

\* the end of convertSpirvToLLVM and readSpirv: the value returned, the
\* module handed back and what ErrMsg holds
readSpirvEnd(translated, M, log, ErrMsg) ==
  IF ~translated
  THEN [ret |-> "false", module |-> [tag |-> "null", body |-> <<>>],
        msg |-> getError(log)]
  ELSE [ret |-> "true", module |-> [tag |-> "module", body |-> M],
        msg |-> ErrMsg]

\* one call of an entry point on any input within the bounds: an LLVM
\* module with a target triple and the translator options, or a SPIR-V
\* binary; the caller passes an empty ErrMsg
InitIO ==
  /\ \/ /\ ioDir = "enc"
        /\ ioIn \in [triple : BOOLEAN, broken : BOOLEAN, APInts : BOOLEAN,
                     AllowUnknown : BOOLEAN,
                     items : SeqsUpTo(EncoderItems, MaxItems)]
     \/ /\ ioDir = "dec"
        /\ ioIn \in [valid : BOOLEAN, addressing : AddressingModels,
                     items : SeqsUpTo({"ok"}, MaxItems)]
  /\ ioPc = "start"
  /\ ioNext = 1
  /\ ioErr = "Success"
  /\ ioBuilt = <<>>
  /\ ioRet = "none"
  /\ ioOut = <<>>
  /\ ioModule = [tag |-> "untouched", body |-> <<>>]
  /\ ioMsg = ""
  /\ ioPasses = <<>>
  /\ ioLegal = [verified |-> TRUE, ret |-> TRUE]
  /\ IdleButIO

\* writeSpirv up to the pass manager: isValidLLVMModule
WriteSpirvValidate ==
  /\ ioDir = "enc" /\ ioPc = "start"
  /\ LET r == isValidLLVMModule(ioErr, ioIn.triple)
     IN  /\ ioErr' = r.log
         /\ IF r.valid
            THEN ioPc' = "passes" /\ ioRet' = ioRet
            ELSE ioPc' = "returned" /\ ioRet' = "false"
  /\ UNCHANGED <<ioDir, ioIn, ioNext, ioBuilt, ioOut, ioModule, ioMsg,
                 ioPasses, ioLegal, othersIO>>

\* the pass manager running the passes of addPassesForSPIRV, the
\* Legalizer among them
RunRegularize ==
  /\ ioDir = "enc" /\ ioPc = "passes"
  /\ ioPasses' = Append(ioPasses, "SPIRVRegularizeLLVM")
  /\ ioLegal' = SPIRVRegularizeLLVM_runOnModule(ioIn.broken)
  /\ ioPc' = "translate"
  /\ UNCHANGED <<ioDir, ioIn, ioNext, ioErr, ioBuilt, ioRet, ioOut, ioModule,
                 ioMsg, othersIO>>

\* LLVMToSPIRV translating the next construct of the module
EncodeItem ==
  /\ ioDir = "enc" /\ ioPc = "translate" /\ ioNext <= Len(ioIn.items)
  /\ LET item == ioIn.items[ioNext]
     IN  \E ub \in UnreachableOutcomes :
           LET C == LLVMToSPIRV_transConstantInt(ioErr, ioBuilt, ioIn.APInts, ub)
               I == LLVMToSPIRV_transIntrinsicInst(ioErr, ioBuilt, ioIn.AllowUnknown)
           IN  /\ ioErr' = CASE item = "wide_constant" -> C.log
                             [] item = "unknown_intrinsic" -> I.log
                             [] item = "function_pointer" ->
                                  checkError(ioErr, FALSE, "FunctionPointers")
                             [] OTHER -> ioErr
               /\ ioBuilt' = CASE item = "wide_constant" -> C.BM
                               [] item = "unknown_intrinsic" -> I.BM
                               [] item = "function_pointer" -> ioBuilt
                               [] OTHER -> Append(ioBuilt, item)
               /\ ioPc' = IF item = "wide_constant" /\ C.aborted
                          THEN "aborted" ELSE ioPc
  /\ ioPasses' = IF ioNext = 1 THEN Append(ioPasses, "LLVMToSPIRV") ELSE ioPasses
  /\ ioNext' = ioNext + 1
  /\ UNCHANGED <<ioDir, ioIn, ioRet, ioOut, ioModule, ioMsg, ioLegal, othersIO>>

\* writeSpirv after the pass manager has run
WriteSpirvReturn ==
  /\ ioDir = "enc" /\ ioPc = "translate" /\ ioNext > Len(ioIn.items)
  /\ LET r == writeSpirvEnd(ioErr, ioBuilt)
     IN  ioRet' = r.ret /\ ioOut' = r.out /\ ioMsg' = r.msg
  /\ ioPc' = "returned"
  /\ UNCHANGED <<ioDir, ioIn, ioNext, ioErr, ioBuilt, ioModule, ioPasses,
                 ioLegal, othersIO>>

\* readSpirv: readSpirvModule
ReadSpirvModule ==
  /\ ioDir = "dec" /\ ioPc = "start"
  /\ ioErr' = checkError(ioErr, ioIn.valid, "InvalidModule")
  /\ IF ioIn.valid
     THEN ioPc' = "addressing" /\ ioRet' = ioRet /\ ioMsg' = ioMsg
     ELSE ioPc' = "returned" /\ ioRet' = "false" /\ ioMsg' = getError(ioErr')
  /\ UNCHANGED <<ioDir, ioIn, ioNext, ioBuilt, ioOut, ioModule, ioPasses,
                 ioLegal, othersIO>>

\* SPIRVToLLVM::translate: transAddressingModel; on failure translate
\* returns false and convertSpirvToLLVM and readSpirv return
TransAddressingModel ==
  /\ ioDir = "dec" /\ ioPc = "addressing"
  /\ LET known == ioIn.addressing \in {"Physical64", "Physical32", "Logical"}
     IN  /\ ioErr' = checkError(ioErr, known, "InvalidAddressingModel")
         /\ IF known
            THEN /\ ioPc' = "translate"
                 /\ UNCHANGED <<ioRet, ioModule, ioMsg>>
            ELSE LET r == readSpirvEnd(FALSE, ioBuilt, ioErr', ioMsg)
                 IN  /\ ioPc' = "returned"
                     /\ ioRet' = r.ret /\ ioModule' = r.module /\ ioMsg' = r.msg
  /\ UNCHANGED <<ioDir, ioIn, ioNext, ioBuilt, ioOut, ioPasses, ioLegal, othersIO>>

\* SPIRVToLLVM::translate: the next variable or function
DecodeItem ==
  /\ ioDir = "dec" /\ ioPc = "translate" /\ ioNext <= Len(ioIn.items)
  /\ ioBuilt' = Append(ioBuilt, ioIn.items[ioNext])
  /\ ioNext' = ioNext + 1
  /\ UNCHANGED <<ioDir, ioIn, ioPc, ioErr, ioRet, ioOut, ioModule, ioMsg,
                 ioPasses, ioLegal, othersIO>>

\* translate returns true; convertSpirvToLLVM and readSpirv return
ReadSpirvReturn ==
  /\ ioDir = "dec" /\ ioPc = "translate" /\ ioNext > Len(ioIn.items)
  /\ LET r == readSpirvEnd(TRUE, ioBuilt, ioErr, ioMsg)
     IN  ioRet' = r.ret /\ ioModule' = r.module /\ ioMsg' = r.msg
  /\ ioPc' = "returned"
  /\ UNCHANGED <<ioDir, ioIn, ioNext, ioErr, ioBuilt, ioOut, ioPasses,
                 ioLegal, othersIO>>

NextIO ==
  \/ WriteSpirvValidate
  \/ RunRegularize
  \/ EncodeItem
  \/ WriteSpirvReturn
  \/ ReadSpirvModule
  \/ TransAddressingModel
  \/ DecodeItem
  \/ ReadSpirvReturn

SpecIO == InitIO /\ [][NextIO]_vars

C11_DiagnosticOnFailure ==
  (ioPc = "returned" /\ ioRet = "false") => ioMsg # ""

\* C12: a module with an unsupported target triple is rejected before
\* any pass has run on it and nothing is written.
C12_TripleRejectedFirst ==
  (ioDir = "enc" /\ ~ioIn.triple) =>
    /\ ioPasses = <<>>
    /\ ioOut = <<>>
    /\ ioPc \in {"start", "returned"}
    /\ ioPc = "returned" => ioRet = "false"

\* writeSpirv has returned for a module with an unsupported triple
C12_Witness ==
  /\ ioDir = "enc" /\ ioPc = "returned"
  /\ ~ioIn.triple
  /\ ioErr = "InvalidTargetTriple"

\* C13: when verification after legalization fails, the Legalizer
\* returns failure to its caller and the encoder translates nothing.
C13_VerificationFailureReported ==
  (ioDir = "enc" /\ "SPIRVRegularizeLLVM" \in Range(ioPasses) /\ ~ioLegal.verified) =>
    /\ ~ioLegal.ret
    /\ "LLVMToSPIRV" \notin Range(ioPasses)
    /\ ioPc = "returned" => ioRet = "false"

\* the translation of an integer constant wider than 64 bits without
\* the arbitrary-precision extension has been reached
WideConstantRejected ==
  /\ ioDir = "enc" /\ ~ioIn.APInts
  /\ \E i \in 1..(ioNext - 1) : i <= Len(ioIn.items) /\ ioIn.items[i] = "wide_constant"

\* C14: encoding an integer constant wider than 64 bits without the
\* arbitrary-precision extension records an invalid-bit-width error and
\* the call ends by returning failure.
C14_WideConstantFails ==
  WideConstantRejected =>
    /\ ioErr # "Success"
    /\ ioPc \in {"translate", "returned"}
    /\ ioPc = "returned" => ioRet = "false"

\* a call of an intrinsic without mapping has been translated
UnknownIntrinsicTranslated ==
  /\ ioDir = "enc"
  /\ \E i \in 1..(ioNext - 1) : i <= Len(ioIn.items) /\ ioIn.items[i] = "unknown_intrinsic"

\* C17: a call of an intrinsic without mapping records an error and
\* makes writeSpirv return failure, unless unknown intrinsics are
\* allowed; then the call is emitted as a call of a declared function
\* and the intrinsic records no error.
C17_UnknownIntrinsic ==
  UnknownIntrinsicTranslated =>
    IF ioIn.AllowUnknown
    THEN /\ \E i \in 1..(Len(ioBuilt) - 1) :
              ioBuilt[i] = "declaration" /\ ioBuilt[i + 1] = "call"
         /\ ioErr # "InvalidFunctionCall"
         /\ (\A i \in DOMAIN ioIn.items : ioIn.items[i] \in {"ok", "unknown_intrinsic"})
              => ioErr = "Success"
    ELSE /\ ioErr # "Success"
         /\ (\A i \in DOMAIN ioIn.items : ioIn.items[i] \in {"ok", "unknown_intrinsic"})
              => ioErr = "InvalidFunctionCall"
         /\ ioPc = "returned" => (ioRet = "false" /\ ioOut = <<>>)

\* writeSpirv has returned failure for a module whose only flaw is a
\* call of an unknown intrinsic
C17_Witness ==
  /\ UnknownIntrinsicTranslated /\ ~ioIn.AllowUnknown
  /\ ioPc = "returned" /\ ioErr = "InvalidFunctionCall"

\* C22: translation of a module stops at the first recorded failure:
\* once an error is in the log, no further construct of the module is
\* translated and nothing more is built.
C22_StopsAtFirstFailure ==
  [][ioErr # "Success" => ioNext' = ioNext /\ ioBuilt' = ioBuilt]_vars

(***************************************************************************)
(* Integer constants wider than 64 bits                                    *)
(*                                                                         *)
(* An unsigned integer is the set of the positions of its one bits, so     *)
(* that the widths are the real ones.                                      *)
(***************************************************************************)
\* largest number of one bits of a constant
MaxOneBits == 2

SpirvWordBitWidth == 32

\* the bit widths of the constants, with an even and an odd number of
\* SPIR-V words and of 64-bit words
BitWidths == {65, 96, 97, 128}

\* the positions the one bits are drawn from: the ends of the words
BitPositions == {0, 31, 32, 63, 64, 95, 96, 127}

BigInts(NumBits) ==
  {v \in SUBSET {p \in BitPositions : p < NumBits} : Cardinality(v) <= MaxOneBits}

\* v << k, v >> k and the low k bits of v
ShiftLeft(v, k) == {p + k : p \in v}
ShiftRight(v, k) == {p - k : p \in {q \in v : q >= k}}
LowBits(v, k) == {p \in v : p < k}

\* APInt::getRawData: the 64-bit words of the value, low word first
getRawData(NumBits, v) ==
  [I \in 0..(((NumBits + 63) \div 64) - 1) |-> LowBits(ShiftRight(v, 64 * I), 64)]

\* SPIRVConstant built from an APInt: its NumWords 32-bit words, low
\* word first
getSPIRVWords(NumBits, v) ==
  LET BigValArr == getRawData(NumBits, v)
      NumWords == (NumBits + 31) \div 32
  IN  [W \in 1..NumWords |->
         IF (W - 1) % 2 = 1
         THEN ShiftRight(BigValArr[(W - 1) \div 2], 32)
         ELSE LowBits(BigValArr[(W - 1) \div 2], 32)]

\* a variant of the packing that leaves the last 64-bit word zero when
\* the number of SPIR-V words is odd
packWords_NoTail(RawData) ==
  LET RawDataNumWords == Len(RawData)
      BigValNumWords == (RawDataNumWords + 1) \div 2
  IN  [I \in 0..(BigValNumWords - 1) |->
         IF I < RawDataNumWords \div 2
         THEN ShiftLeft(RawData[2 * I + 2], SpirvWordBitWidth) \cup RawData[2 * I + 1]
         ELSE {}]

\* the reader packing the SPIR-V words into 64-bit words
packWords(RawData) ==
  LET RawDataNumWords == Len(RawData)
      BigValNumWords == (RawDataNumWords + 1) \div 2
  IN  [I \in 0..(BigValNumWords - 1) |->
         IF I < RawDataNumWords \div 2
         THEN ShiftLeft(RawData[2 * I + 2], SpirvWordBitWidth) \cup RawData[2 * I + 1]
         ELSE RawData[RawDataNumWords]]

\* APInt(NumBits, BigValVec): the value of the 64-bit words, cut to
\* NumBits bits
APInt(NumBits, BigValVec) ==
  LowBits(UNION {ShiftLeft(BigValVec[I], 64 * I) : I \in DOMAIN BigValVec}, NumBits)

\* the writer's ConstantInt case with the extension allowed
LLVMToSPIRV_transBigConstant(c) ==
  [NumBits |-> c.NumBits, Words |-> getSPIRVWords(c.NumBits, c.Value)]

\* the reader's OpConstant case for an integer type wider than 64 bits
SPIRVToLLVM_transBigConstant(BConst) ==
  [NumBits |-> BConst.NumBits, Value |-> APInt(BConst.NumBits, packWords(BConst.Words))]

InitAPInt ==
  /\ \E N \in BitWidths : \E v \in BigInts(N) : apIn = [NumBits |-> N, Value |-> v]
  /\ apConst = <<>>
  /\ apOut = <<>>
  /\ apPc = "encode"
  /\ IdleButAPInt

EncodeBigConstant ==
  /\ apPc = "encode"
  /\ apConst' = LLVMToSPIRV_transBigConstant(apIn)
  /\ apPc' = "decode"
  /\ UNCHANGED <<apIn, apOut, othersAPInt>>

DecodeBigConstant ==
  /\ apPc = "decode"
  /\ apOut' = SPIRVToLLVM_transBigConstant(apConst)
  /\ apPc' = "done"
  /\ UNCHANGED <<apIn, apConst, othersAPInt>>

NextAPInt ==
  \/ EncodeBigConstant
  \/ DecodeBigConstant

SpecAPInt == InitAPInt /\ [][NextAPInt]_vars

\* C15: with the extension allowed a constant wider than 64 bits is
\* encoded as one 32-bit word per 32 bits of its width, and decoding
\* gives back an integer of the same width and the same value.
C15_BigConstantRoundTrip ==
  /\ apPc \in {"decode", "done"} =>
       /\ Len(apConst.Words) = (apIn.NumBits + 31) \div 32
       /\ Len(apConst.Words) > 2
       /\ \A W \in DOMAIN apConst.Words : apConst.Words[W] \subseteq 0..31
  /\ apPc = "done" => apOut = apIn

\* a constant of an odd number of words with a one bit in its last word
\* has been decoded
C15_Witness ==
  /\ apPc = "done"
  /\ Len(apConst.Words) % 2 = 1
  /\ apConst.Words[Len(apConst.Words)] # {}
  /\ apOut = apIn

(***************************************************************************)
(* Global variables and their linkage                                      *)
(***************************************************************************)
GlobalNames == {"g", "h"}

\* the address spaces of global variables and their storage classes
AddressSpaces == {"SPIRAS_Global", "SPIRAS_Constant", "SPIRAS_Local"}
StorageClasses ==
  {"StorageClassCrossWorkgroup", "StorageClassUniformConstant", "StorageClassWorkgroup"}

\* SPIRSPIRVAddrSpaceMap::map and rmap
SPIRSPIRVAddrSpaceMap_map(AS) ==
  CASE AS = "SPIRAS_Global" -> "StorageClassCrossWorkgroup"
    [] AS = "SPIRAS_Constant" -> "StorageClassUniformConstant"
    [] AS = "SPIRAS_Local" -> "StorageClassWorkgroup"

SPIRSPIRVAddrSpaceMap_rmap(BS) ==
  CHOOSE AS \in AddressSpaces : SPIRSPIRVAddrSpaceMap_map(AS) = BS

\* The global variables of an LLVM module. The initializer is "none" (a
\* declaration), "zero", "undef" or another constant "const". A global
\* with common linkage has a zero initializer and is not constant, and
\* only a global with external linkage can be a declaration.
LLVMLinkages ==
  {"CommonLinkage", "ExternalLinkage", "InternalLinkage", "PrivateLinkage",
   "LinkOnceODRLinkage", "AvailableExternallyLinkage", "WeakAnyLinkage"}

LLVMGlobals ==
  {G \in [name : GlobalNames, linkage : LLVMLinkages,
          init : {"none", "zero", "undef", "const"},
          isConstant : BOOLEAN, AddrSpace : AddressSpaces] :
     /\ G.linkage = "CommonLinkage" => (G.init = "zero" /\ ~G.isConstant)
     /\ G.init = "none" => G.linkage = "ExternalLinkage"}

\* The variables of a SPIR-V module outside functions, none of them a
\* sampler, a builtin or one of llvm.used and llvm.compiler.used
SPIRVVariables ==
  [name : GlobalNames,
   linkage : {"LinkageTypeInternal", "LinkageTypeImport",
              "LinkageTypeExport", "LinkageTypeLinkOnceODR"},
   init : {"none", "zero", "const"},
   isConstant : BOOLEAN, StorageClass : StorageClasses]

\* LLVMToSPIRV::transLinkageType
LLVMToSPIRV_transLinkageType(GV, LinkOnceODRAllowed) ==
  IF GV.init = "none" \/ GV.linkage = "AvailableExternallyLinkage"
  THEN "LinkageTypeImport"
  ELSE IF GV.linkage \in {"InternalLinkage", "PrivateLinkage"}
  THEN "LinkageTypeInternal"
  ELSE IF GV.linkage = "LinkOnceODRLinkage" /\ LinkOnceODRAllowed
  THEN "LinkageTypeLinkOnceODR"
  ELSE "LinkageTypeExport"

\* a variant of the writer's choice of initializer that keeps the
\* initializer of a global with common linkage
LLVMToSPIRV_transInitializer_KeepCommon(GV) ==
  IF GV.init \in {"none", "undef"} THEN "none" ELSE GV.init

\* the initializer the writer gives the variable: none for a
\* declaration, for a global with common linkage and for undef
LLVMToSPIRV_transInitializer(GV) ==
  IF GV.init = "none" \/ GV.linkage = "CommonLinkage" \/ GV.init = "undef"
  THEN "none"
  ELSE GV.init

\* the GlobalVariable case of the writer's transValueWithoutDecoration
LLVMToSPIRV_transGlobalVariable(GV, LinkOnceODRAllowed) ==
  [name |-> GV.name,
   linkage |-> LLVMToSPIRV_transLinkageType(GV, LinkOnceODRAllowed),
   init |-> LLVMToSPIRV_transInitializer(GV),
   isConstant |-> GV.isConstant,
   StorageClass |-> SPIRSPIRVAddrSpaceMap_map(GV.AddrSpace)]

\* SPIRVToLLVM::transLinkageType of a variable
SPIRVToLLVM_transLinkageType(V) ==
  CASE V.linkage = "LinkageTypeInternal" -> "InternalLinkage"
    [] V.linkage = "LinkageTypeImport" ->
         IF V.init = "none" THEN "ExternalLinkage" ELSE "AvailableExternallyLinkage"
    [] V.linkage = "LinkageTypeExport" ->
         IF V.init = "none" THEN "CommonLinkage" ELSE "ExternalLinkage"
    [] V.linkage = "LinkageTypeLinkOnceODR" -> "LinkOnceODRLinkage"

\* the OpVariable case of the reader's transValueWithoutDecoration
SPIRVToLLVM_transVariable(BVar) ==
  LET LinkageTy == SPIRVToLLVM_transLinkageType(BVar)
      Initializer ==
        IF BVar.init # "none" THEN BVar.init
        ELSE IF LinkageTy = "CommonLinkage" THEN "zero"
        ELSE IF BVar.StorageClass = "StorageClassWorkgroup" THEN "undef"
        ELSE "none"
  IN  [name |-> BVar.name, linkage |-> LinkageTy, init |-> Initializer,
       isConstant |-> BVar.isConstant,
       AddrSpace |-> SPIRSPIRVAddrSpaceMap_rmap(BVar.StorageClass)]

\* a global of an LLVM module to encode and decode again, or a variable
\* of a SPIR-V module to decode
InitLinkage ==
  /\ \/ /\ gkPc = "encode"
        /\ gkLLVM \in LLVMGlobals
        /\ gkExt \in BOOLEAN
        /\ gkVar = <<>>
     \/ /\ gkPc = "decode"
        /\ gkLLVM = <<>>
        /\ gkExt = FALSE
        /\ gkVar \in SPIRVVariables
  /\ gkOut = <<>>
  /\ IdleButLinkage

EncodeGlobal ==
  /\ gkPc = "encode"
  /\ gkVar' = LLVMToSPIRV_transGlobalVariable(gkLLVM, gkExt)
  /\ gkPc' = "decode"
  /\ UNCHANGED <<gkLLVM, gkExt, gkOut, othersLinkage>>

DecodeVariable ==
  /\ gkPc = "decode"
  /\ gkOut' = SPIRVToLLVM_transVariable(gkVar)
  /\ gkPc' = "done"
  /\ UNCHANGED <<gkLLVM, gkExt, gkVar, othersLinkage>>

NextLinkage ==
  \/ EncodeGlobal
  \/ DecodeVariable

SpecLinkage == InitLinkage /\ [][NextLinkage]_vars

MaxBlocks == 2

\* largest number of decorations of one kind on a SPIR-V value
MaxSameKind == 2

AnnotationBlocks ==
  { <<"{", "memory", ":", "DEFAULT", "}">>,
    <<"{", "numbanks", ":", "4", "}">>,
    <<"{", "numbanks", ":", "8", "}">>,
    <<"{", "bankwidth", ":", "8", "}">>,
    <<"{", "pump", ":", "2", "}">>,
    <<"{", "register", ":", "1", "}">>,
    <<"{", "foo", ":", "1", "}">> }

FreeTexts == { <<>>, <<"lorem">>, <<"lorem", "ipsum">> }

RECURSIVE Concat(_)
Concat(ss) == IF ss = <<>> THEN <<>> ELSE Head(ss) \o Concat(Tail(ss))

\* the annotation strings: free text, blocks, free text
AnnotationStrings ==
  {lead \o Concat(bs) \o trail :
     lead \in {<<>>, <<"lorem">>},
     bs \in SeqsUpTo(AnnotationBlocks, MaxBlocks),
     trail \in FreeTexts}

\* StringRef::count, find (from a position, counted from 0), substr,
\* drop_front and split
count(s, c) == Cardinality({i \in DOMAIN s : s[i] = c})

find(s, c, From) ==
  LET hits == {i \in DOMAIN s : s[i] = c /\ i - 1 >= From}
  IN  IF hits = {} THEN -1
      ELSE (CHOOSE i \in hits : \A j \in hits : i <= j) - 1

Min2(a, b) == IF a <= b THEN a ELSE b

substr(s, Start, N) ==
  LET st == Min2(Start, Len(s))
      n == Min2(N, Len(s) - st)
  IN  SubSeq(s, st + 1, st + n)

drop_front(s, N) == SubSeq(s, N + 1, Len(s))

split(s, c) ==
  LET Idx == find(s, c, 0)
  IN  IF Idx = -1 THEN [first |-> s, second |-> <<>>]
      ELSE [first |-> substr(s, 0, Idx), second |-> drop_front(s, Idx + 1)]

\* the decoration kind of a key
DecorationOf(F, S) ==
  CASE F = <<"pump">> /\ S = <<"1">> -> "SinglepumpINTEL"
    [] F = <<"pump">> /\ S = <<"2">> -> "DoublepumpINTEL"
    [] F = <<"register">> -> "RegisterINTEL"
    [] F = <<"simple_dual_port">> -> "SimpleDualPortINTEL"
    [] F = <<"memory">> -> "MemoryINTEL"
    [] F = <<"numbanks">> -> "NumbanksINTEL"
    [] F = <<"bankwidth">> -> "BankwidthINTEL"
    [] F = <<"private_copies">> -> "MaxPrivateCopiesINTEL"
    [] F = <<"max_replicates">> -> "MaxReplicatesINTEL"
    [] F = <<"bank_bits">> -> "BankBitsINTEL"
    [] F = <<"merge">> -> "MergeINTEL"
    [] F = <<"force_pow2_depth">> -> "ForcePow2DepthINTEL"
    [] OTHER -> "UserSemantic"

\* the kinds that take no value
NoValueKinds ==
  {"SinglepumpINTEL", "DoublepumpINTEL", "RegisterINTEL", "SimpleDualPortINTEL"}

\* the kinds whose value is a number
NumberKinds ==
  {"NumbanksINTEL", "BankwidthINTEL", "MaxPrivateCopiesINTEL",
   "MaxReplicatesINTEL", "ForcePow2DepthINTEL"}

\* one turn of the loop of tryParseIntelFPGAAnnotationString: the
\* decoration of the first block of AnnotatedCode and the rest of it
parseBlock(AnnotatedCode) ==
  LET From == find(AnnotatedCode, "{", 0)
      To == find(AnnotatedCode, "}", From)
      AnnotatedDecoration == substr(AnnotatedCode, From + 1, To - 1)
      D == split(AnnotatedDecoration, ":")
      Dec == DecorationOf(D.first, D.second)
      Value == IF Dec \in NoValueKinds THEN <<>>
               ELSE IF Dec = "UserSemantic" THEN substr(AnnotatedCode, From, To + 1)
               ELSE D.second
  IN  [dec |-> [kind |-> Dec, value |-> Value],
       rest |-> drop_front(AnnotatedCode, To + 1)]

RECURSIVE parseBlocks(_, _)
parseBlocks(AnnotatedCode, N) ==
  IF N = 0 THEN <<>>
  ELSE LET b == parseBlock(AnnotatedCode)
       IN  <<b.dec>> \o parseBlocks(b.rest, N - 1)

\* tryParseIntelFPGAAnnotationString
tryParseIntelFPGAAnnotationString(AnnotatedCode) ==
  LET OpenBracketNum == count(AnnotatedCode, "{")
      CloseBracketNum == count(AnnotatedCode, "}")
  IN  IF OpenBracketNum # CloseBracketNum THEN <<>>
      ELSE parseBlocks(AnnotatedCode, OpenBracketNum)

\* StringRef::getAsInteger(10, Result) with Result 0 beforehand
getAsInteger(S) ==
  IF Len(S) = 1 /\ S[1] \in {"1", "2", "4", "8"} THEN S ELSE <<"0">>

hasDecorate(E, kind) == \E i \in DOMAIN E : E[i].kind = kind

\* addIntelFPGADecorations and addIntelFPGADecorationsForStructMember
\* with the extension allowed: the decorations of the entry afterwards
RECURSIVE addIntelFPGADecorations(_, _)
addIntelFPGADecorations(E, Decorations) ==
  IF Decorations = <<>> THEN E
  ELSE LET I == Head(Decorations)
           added ==
             IF hasDecorate(E, I.kind) THEN E
             ELSE IF I.kind \in NumberKinds
             THEN Append(E, [kind |-> I.kind, value |-> getAsInteger(I.value)])
             ELSE Append(E, I)
       IN  addIntelFPGADecorations(added, Tail(Decorations))

\* the var_annotation and ptr_annotation cases of transIntrinsicInst:
\* the decorations of the annotated value or struct member afterwards
transAnnotation(E, AnnotationString, Allowed) ==
  LET Decorations == IF Allowed
                     THEN tryParseIntelFPGAAnnotationString(AnnotationString)
                     ELSE <<>>
  IN  IF Decorations = <<>>
      THEN Append(E, [kind |-> "UserSemantic", value |-> AnnotationString])
      ELSE addIntelFPGADecorations(E, Decorations)

\* what a build makes of a failing assert: the process is aborted, or
\* the assert is compiled out
AssertOutcomes == {"abort", "compiled out"}

\* translateSEVMetadata for a value with the given literals of its
\* SingleElementVectorINTEL decorations, one decoration per literal
translateSEVMetadata(VecDecorateSEV, build) ==
  IF VecDecorateSEV = <<>> THEN [aborted |-> FALSE, attr |-> <<>>]
  ELSE IF Len(VecDecorateSEV) # 1 /\ build = "abort"
  THEN [aborted |-> TRUE, attr |-> <<>>]
  ELSE [aborted |-> FALSE,
        attr |-> <<[kind |-> "VCSingleElementVector",
                    value |-> VecDecorateSEV[Len(VecDecorateSEV)]]>>]

\* an annotation intrinsic of an LLVM module to encode, or a decorated
\* value of a SPIR-V module to decode
InitDeco ==
  /\ \/ /\ dcIn \in [dir : {"enc"}, text : AnnotationStrings,
                     target : {"value", "member"}, Allowed : BOOLEAN]
     \/ /\ dcIn \in [dir : {"dec"}, SEV : SeqsUpTo({0, 1}, MaxSameKind)]
  /\ dcOut = <<>>
  /\ dcErr = "Success"
  /\ dcPc = "start"
  /\ IdleButDeco

\* transIntrinsicInst, case Intrinsic::var_annotation
TransVarAnnotation ==
  /\ dcPc = "start" /\ dcIn.dir = "enc" /\ dcIn.target = "value"
  /\ dcOut' = transAnnotation(dcOut, dcIn.text, dcIn.Allowed)
  /\ dcPc' = "done"
  /\ UNCHANGED <<dcIn, dcErr, othersDeco>>

\* transIntrinsicInst, case Intrinsic::ptr_annotation on a struct member
TransPtrAnnotation ==
  /\ dcPc = "start" /\ dcIn.dir = "enc" /\ dcIn.target = "member"
  /\ dcOut' = transAnnotation(dcOut, dcIn.text, dcIn.Allowed)
  /\ dcPc' = "done"
  /\ UNCHANGED <<dcIn, dcErr, othersDeco>>

\* the reader turning the SingleElementVectorINTEL decoration of a
\* value into an attribute
TranslateSEV ==
  /\ dcPc = "start" /\ dcIn.dir = "dec"
  /\ \E build \in AssertOutcomes :
       LET r == translateSEVMetadata(dcIn.SEV, build)
       IN  /\ dcOut' = r.attr
           /\ dcPc' = IF r.aborted THEN "aborted" ELSE "done"
  /\ UNCHANGED <<dcIn, dcErr, othersDeco>>

NextDeco ==
  \/ TransVarAnnotation
  \/ TransPtrAnnotation
  \/ TranslateSEV

SpecDeco == InitDeco /\ [][NextDeco]_vars

\* the blocks and the trailing text of an annotation string that is
\* made of blocks of recognized keys, no two of the same kind, followed
\* by free text
BlocksThenText(bs, trail) ==
  /\ bs \in SeqsUpTo(AnnotationBlocks, MaxBlocks) /\ bs # <<>>
  /\ trail \in FreeTexts /\ trail # <<>>
  /\ dcIn.text = Concat(bs) \o trail
  /\ \A i \in DOMAIN bs : bs[i][2] # "foo"
  /\ \A i, j \in DOMAIN bs : i # j => bs[i][2] # bs[j][2]

\* the i-th decoration of the target is the one written in block b
DecorationOfBlock(i, b) ==
  /\ i \in DOMAIN dcOut
  /\ dcOut[i].kind = DecorationOf(<<b[2]>>, <<b[4]>>)
  /\ dcOut[i].kind \notin NoValueKinds => dcOut[i].value = <<b[4]>>

\* C18: an annotation string of blocks followed by free text gives one
\* decoration per block, each with the value of its block, and the free
\* text as a UserSemantic decoration.
C18_BlocksAndTrailingText ==
  (dcPc = "done" /\ dcIn.dir = "enc" /\ dcIn.Allowed) =>
    \A bs \in SeqsUpTo(AnnotationBlocks, MaxBlocks) : \A trail \in FreeTexts :
      BlocksThenText(bs, trail) =>
        /\ \A i \in DOMAIN bs : DecorationOfBlock(i, bs[i])
        /\ \E i \in DOMAIN dcOut :
             dcOut[i].kind = "UserSemantic" /\ dcOut[i].value = trail

\* the part of C18 about the blocks alone
C18_BlocksOnly ==
  (dcPc = "done" /\ dcIn.dir = "enc" /\ dcIn.Allowed) =>
    \A bs \in SeqsUpTo(AnnotationBlocks, MaxBlocks) : \A trail \in FreeTexts :
      BlocksThenText(bs, trail) =>
        /\ Len(dcOut) = Len(bs)
        /\ \A i \in DOMAIN bs : DecorationOfBlock(i, bs[i])

\* a decoration kind that is allowed once occurs more than once on the
\* target of the translation
DuplicateKind ==
  \/ /\ dcIn.dir = "enc" /\ dcIn.Allowed
     /\ LET Decorations == tryParseIntelFPGAAnnotationString(dcIn.text)
        IN  \E i, j \in DOMAIN Decorations :
              i # j /\ Decorations[i].kind = Decorations[j].kind
  \/ /\ dcIn.dir = "dec" /\ Len(dcIn.SEV) > 1

\* C19: when a decoration kind that is allowed once occurs more than
\* once on a target, the translation ends with an error in the error
\* log.
C19_CardinalityReported ==
  (dcPc \in {"done", "aborted"} /\ DuplicateKind) =>
    (dcPc = "done" /\ dcErr # "Success")


(***************************************************************************)
(* Basic blocks of a function                                              *)
(***************************************************************************)
MaxBBs == 2

\* A function body: its basic blocks in order. A block is an optional PHI
\* (phi is the incoming block, 0 when there is no PHI) followed by its
\* terminator (br is the target block of a branch, 0 for a return).
BlockLists ==
  UNION {[1..n -> [phi : 0..n, br : 0..n]] : n \in 1..MaxBBs}

\* the instructions of a block in order; bb is the block an instruction
\* refers to, 0 when it refers to none
InstsOf(Block) ==
  (IF Block.phi # 0 THEN <<[op |-> "Phi", bb |-> Block.phi]>> ELSE <<>>)
  \o <<[op |-> IF Block.br # 0 THEN "Br" ELSE "Ret", bb |-> Block.br]>>

\* a call of transValue made by transFunction: for a basic block or for
\* the instruction inst of the block bb
TransValueCall(what, bb, inst) == [what |-> what, bb |-> bb, inst |-> inst]

\* for (I < getNumBasicBlock()) transValue(getBasicBlock(I), F, nullptr)
CreateAllBlocks(F) == [I \in 1..Len(F) |-> TransValueCall("block", I, 0)]

\* the second loop: transValue of the block, then of its instructions
RECURSIVE TranslateBlocks(_, _)
TranslateBlocks(F, I) ==
  IF I > Len(F) THEN <<>>
  ELSE <<TransValueCall("block", I, 0)>>
       \o [BI \in 1..Len(InstsOf(F[I])) |-> TransValueCall("inst", I, BI)]
       \o TranslateBlocks(F, I + 1)

\* a variant that creates a block when it comes to translate it
SPIRVToLLVM_transFunction_Lazy(BF) == TranslateBlocks(BF, 1)

\* SPIRVToLLVM::transFunction, the calls of transValue in order
SPIRVToLLVM_transFunction(BF) == CreateAllBlocks(BF) \o TranslateBlocks(BF, 1)

\* LLVMToSPIRV::transFunction, the calls of transValue in order
LLVMToSPIRV_transFunction(I) == CreateAllBlocks(I) \o TranslateBlocks(I, 1)

\* any function body within the bounds, in either direction, nothing
\* translated
InitBlock ==
  /\ bbDir \in {"dec", "enc"}
  /\ bbFn \in BlockLists
  /\ bbCalls = IF bbDir = "dec" THEN SPIRVToLLVM_transFunction(bbFn)
                                ELSE LLVMToSPIRV_transFunction(bbFn)
  /\ bbK = 1
  /\ bbMap = {}
  /\ bbInsts = 0
  /\ bbMissed = {}
  /\ IdleButBlock

\* transValue of a basic block: the mapped target block when there is
\* one, else a new empty block that is entered in the value table
TransBasicBlock ==
  /\ bbDir # "idle" /\ bbK <= Len(bbCalls)
  /\ bbCalls[bbK].what = "block"
  /\ bbMap' = bbMap \cup {bbCalls[bbK].bb}
  /\ bbK' = bbK + 1
  /\ UNCHANGED <<bbDir, bbFn, bbCalls, bbInsts, bbMissed, othersBlock>>

\* transValue of an instruction: a branch or PHI calls transValue for the
\* block it refers to
TransInstruction ==
  /\ bbDir # "idle" /\ bbK <= Len(bbCalls)
  /\ bbCalls[bbK].what = "inst"
  /\ LET c == bbCalls[bbK]
         Inst == InstsOf(bbFn[c.bb])[c.inst]
     IN  IF Inst.bb # 0
         THEN /\ bbMissed' = IF Inst.bb \in bbMap THEN bbMissed
                             ELSE bbMissed \cup {<<c.bb, c.inst>>}
              /\ bbMap' = bbMap \cup {Inst.bb}
         ELSE UNCHANGED <<bbMap, bbMissed>>
  /\ bbInsts' = bbInsts + 1
  /\ bbK' = bbK + 1
  /\ UNCHANGED <<bbDir, bbFn, bbCalls, othersBlock>>

NextBlock ==
  \/ TransBasicBlock
  \/ TransInstruction

SpecBlock == InitBlock /\ [][NextBlock]_vars

\* C23: in both directions every basic block of the function has its
\* target block in the value table before the first instruction of the
\* function is translated, and no branch or PHI meets a block that has
\* no target block yet.
C23_BlocksBeforeInstructions ==
  bbDir # "idle" =>
    /\ bbInsts > 0 => bbMap = DOMAIN bbFn
    /\ bbMissed = {}

\* a function was translated whose first block branches forward to the
\* second, which has a PHI
C23_Witness ==
  /\ bbDir = "dec" /\ bbK > Len(bbCalls)
  /\ Len(bbFn) = 2 /\ bbFn[1].br = 2 /\ bbFn[2].phi = 1
  /\ bbInsts = 3

(***************************************************************************)
(* The decoder's expansion of signed integer modulo                        *)
(***************************************************************************)
\* the width in bits of the integer type of the operands
IntWidth == 4

MinInt == -(2 ^ (IntWidth - 1))
MaxInt == 2 ^ (IntWidth - 1) - 1
IntValues == MinInt .. MaxInt

Abs(x) == IF x < 0 THEN -x ELSE x

\* a result of an LLVM instruction: a value, poison, or no result at all
\* because execution has trapped
Value(v) == [val |-> v, poison |-> FALSE, trap |-> FALSE]
Poison == [val |-> 0, poison |-> TRUE, trap |-> FALSE]
Trap == [val |-> 0, poison |-> FALSE, trap |-> TRUE]

\* srem: the remainder has the sign of the dividend. For the smallest
\* value and -1 the division overflows and the behaviour is undefined:
\* the build may trap or give any value.
CreateSRem(a, b) ==
  IF a = MinInt /\ b = -1
  THEN {Trap} \cup {Value(v) : v \in IntValues}
  ELSE {Value(IF a < 0 THEN -(Abs(a) % Abs(b)) ELSE Abs(a) % Abs(b))}

\* a variant that never sees a difference of the signs
CmpSign_Never(a, b) == FALSE

\* icmp slt (xor a, b), 0: the signs of a and b differ
CmpSign(a, b) == (a < 0) # (b < 0)

\* add nsw: poison when the sum is not a value of the type
CreateNSWAdd(x, y) ==
  IF x + y \in IntValues THEN Value(x + y) ELSE Poison

\* the OpSMod case of transValueWithoutDecoration: the results of the
\* instructions it creates, for the dividend a and the divisor b
SMod(a, b) ==
  {IF SRem.trap THEN [SRem |-> SRem, Add |-> SRem, Cmp |-> FALSE, Select |-> SRem]
   ELSE LET Add == CreateNSWAdd(SRem.val, b)
            Cmp == CmpSign(a, b) /\ SRem.val # 0
        IN  [SRem |-> SRem, Add |-> Add, Cmp |-> Cmp,
             Select |-> IF Cmp THEN Add ELSE SRem] :
     SRem \in CreateSRem(a, b)}

\* any dividend and any divisor but zero
InitSMod ==
  /\ smA \in IntValues
  /\ smB \in IntValues \ {0}
  /\ smRes = <<>>
  /\ smPc = "start"
  /\ IdleButSMod

\* the decoded instructions are executed
ExecuteSMod ==
  /\ smPc = "start"
  /\ smRes' \in SMod(smA, smB)
  /\ smPc' = "done"
  /\ UNCHANGED <<smA, smB, othersSMod>>

NextSMod == ExecuteSMod

SpecSMod == InitSMod /\ [][NextSMod]_vars

\* the result is the floored modulo of a and b: a value congruent to a
\* modulo b that is zero or has the sign of b; and the add of the divisor,
\* when its result is taken, has not overflowed
FlooredModulo ==
  /\ ~smRes.Select.trap /\ ~smRes.Select.poison
  /\ (smRes.Select.val - smA) % Abs(smB) = 0
  /\ Abs(smRes.Select.val) < Abs(smB)
  /\ smRes.Select.val = 0 \/ ((smRes.Select.val < 0) <=> (smB < 0))
  /\ smRes.Cmp => ~smRes.Add.poison

\* C30: for every dividend a and every divisor b but zero the expansion
\* computes the floored modulo, and the conditional add of the divisor
\* never overflows.
C30_FlooredModuloForAll ==
  smPc = "done" => FlooredModulo

\* C30, amended: for every dividend a and every divisor b but zero,
\* except the smallest value of the type as dividend with the divisor -1
\* (for which the remainder instruction is undefined), the expansion
\* computes the floored modulo, and the add of the divisor does not
\* overflow when its result is taken.
C30_ExceptOverflowingRemainder ==
  (smPc = "done" /\ ~(smA = MinInt /\ smB = -1)) => FlooredModulo

\* a negative dividend and a positive divisor that does not divide it:
\* the remainder was negative and the divisor was added
C30_Witness ==
  /\ smPc = "done" /\ smA = -7 /\ smB = 3
  /\ smRes.SRem.val = -1 /\ smRes.Cmp /\ smRes.Select.val = 2
====
